---------------------------- MODULE Spec2Model ----------------------------
(* Dynamic load balancer for EV charging: the substation capacity state    *)
(* machine (substation_service/main.py), the balancer's registry,          *)
(* telemetry poller, least-loaded selector and router                      *)
(* (load_balancer/main.py), and the entry point's session tracker          *)
(* (charge_request_service/main.py).                                       *)
EXTENDS Integers, Sequences, FiniteSets, TLC

(* ------------------------------ bounds -------------------------------- *)

\* the max_capacity a substation is created with (80..120 kW in the source,
\* scaled down)
MaxCap == 2
\* largest requested_kw a client sends
MaxKw == 3
\* number of concurrently running request-handler threads of a substation
NumThreads == 2
\* number of requests the clients send in one run
MaxCalls == 3

(* ------------------------------ inputs -------------------------------- *)

\* the substation processes, named by the endpoint url the balancer uses
Subs == {"s1", "s2"}
\* the EV ids clients send
EvIds == {"EV_A", "EV_B"}
\* the requested_kw values clients send: the handler puts no bound on them
KwValues == {0 - 1} \cup (1..MaxKw)
Capacities == {MaxCap}
\* the values int(time.time()) takes during a run
Times == 0..1
Threads == 1..NumThreads
NoThread == 0

VARIABLES
    substation_id,      \* SubstationState.substation_id, per substation process
    max_capacity,       \* SubstationState.max_capacity
    current_load,       \* SubstationState.current_load
    active_chargers,    \* SubstationState.active_chargers
    charging_sessions,  \* SubstationState.charging_sessions: session id -> session
    sub_lock,           \* SubstationState.lock: the thread holding it, or NoThread
    now,                \* int(time.time())
    th,                 \* per handler thread: position and locals
    last,               \* the request that returned last, with what it returned
    calls,              \* number of requests sent so far
    substations,        \* LoadBalancer.substations: the registry, a list of urls
    substation_metrics, \* LoadBalancer.substation_metrics: url -> telemetry, a dict
                        \* in insertion order
    poll,               \* the polling thread: position and locals
    polled,             \* urls with a successful poll since they were last added
    running,            \* LoadBalancer.running
    shutdown,           \* the main thread: "serving", or where it is in stop_polling
    route,              \* per balancer handler thread in POST /charge: position, locals
    entry,              \* per entry-point handler thread: position and locals
    active_sessions     \* ChargeRequestService.active_sessions: session id -> record

subVars == <<substation_id, max_capacity, current_load, active_chargers,
             charging_sessions, sub_lock>>
lbVars == <<substations, substation_metrics, poll, polled, running, shutdown>>
reqVars == <<route, entry, active_sessions>>
vars == <<substation_id, max_capacity, current_load, active_chargers,
          charging_sessions, sub_lock, now, th, last, calls,
          substations, substation_metrics, poll, polled, running, shutdown,
          route, entry, active_sessions>>

(* --------------------------- substation ------------------------------- *)

\* the ids random.randint(1000, 9999) may give; two processes may draw the same
SubstationIds == {1000, 1001}

\* f"{substation_id}_{ev_id}_{int(time.time())}": the id is four digits and the
\* time has no underscore, so the string determines the triple and the triple
\* stands for the string
SessionId(sid, ev, t) == <<sid, ev, t>>

AllSessionIds == {SessionId(i, e, t) : i \in SubstationIds, e \in EvIds, t \in Times}

\* a handler thread that is not inside a request
IdleThread ==
    [pc |-> "idle", sub |-> "s1", ev_id |-> "EV_A", requested_kw |-> 0,
     session_id |-> SessionId(1000, "EV_A", 0), cond |-> FALSE,
     caller |-> NoThread]

\* the error None: the call succeeded
NoError == [text |-> "", status |-> 0]

\* no request has returned yet
NoReturn ==
    [op |-> "none", sub |-> "s1", ret_session |-> <<>>, ret_ok |-> FALSE,
     ret_url |-> <<>>, ret_error |-> NoError, requested_kw |-> 0]

\* the handler threads of the balancer and of the entry point
RouteThreads == {1, 2}
EntryThreads == {1, 2}

\* no HTTP response has arrived
NoResponse == [status |-> 0, session_id |-> <<>>, substation_id |-> 0]

\* a balancer handler thread that is not inside POST /charge
IdleRoute ==
    [pc |-> "idle", ev_id |-> "EV_A", requested_kw |-> 0, target |-> <<>>,
     sent_to |-> <<>>, handler |-> NoThread, response |-> NoResponse,
     caller |-> NoThread]

\* an entry-point handler thread that is not inside a request
IdleEntry ==
    [pc |-> "idle", ev_id |-> "EV_A", requested_kw |-> 0,
     session_id |-> SessionId(1000, "EV_A", 0), substation_id |-> 0,
     handler |-> NoThread, response |-> NoResponse]

\* the substation's answer to POST /charge: 200 with the session id and the
\* substation id, or 503 'Insufficient capacity'
StartResponse(ret_session, sid) ==
    IF ret_session # <<>>
    THEN [status |-> 200, session_id |-> ret_session, substation_id |-> sid]
    ELSE [NoResponse EXCEPT !.status = 503]

\* the substation's answer to DELETE /charge/<session_id>: 200, or 404
\* 'Session not found'
StopResponse(found) == [NoResponse EXCEPT !.status = IF found THEN 200 ELSE 404]

\* the answer of substation thread t reaches the balancer thread r that sent
\* the request, if r still waits for it
RouteDeliver(r, t, resp) ==
    IF r \in RouteThreads /\ route[r].pc = "await" /\ route[r].handler = t
    THEN [route EXCEPT ![r].pc = "responded", ![r].response = resp]
    ELSE route

\* the answer of substation thread t reaches the entry-point thread e that sent
\* the request, if e still waits for it
EntryDeliver(e, t, resp) ==
    IF e \in EntryThreads /\ entry[e].pc = "stop_await" /\ entry[e].handler = t
    THEN [entry EXCEPT ![e].pc = "stop_responded", ![e].response = resp]
    ELSE entry

\* ChargeRequestService.__init__, and no request in the balancer or the entry
\* point
InitRequests ==
    /\ route = [r \in RouteThreads |-> IdleRoute]
    /\ entry = [e \in EntryThreads |-> IdleEntry]
    /\ active_sessions = <<>>

\* SubstationState.__init__ in every substation process, and the clock
InitProcesses ==
    /\ substation_id \in [Subs -> SubstationIds]
    /\ max_capacity \in [Subs -> Capacities]
    /\ current_load = [s \in Subs |-> 0]
    /\ active_chargers = [s \in Subs |-> 0]
    /\ charging_sessions = [s \in Subs |-> <<>>]
    /\ sub_lock = [s \in Subs |-> NoThread]
    /\ now = 0
    /\ th = [t \in Threads |-> IdleThread]
    /\ last = NoReturn
    /\ calls = 0
    /\ InitRequests

\* the polling thread before its first cycle
PollerAtTop == [pc |-> "top", to_poll |-> <<>>, current_load |-> 0, total_capacity |-> 1]

\* LoadBalancer.__init__, and start_polling at process start
InitBalancer ==
    /\ substations = <<>>
    /\ substation_metrics = <<>>
    /\ poll = PollerAtTop
    /\ polled = {}
    /\ running = TRUE
    /\ shutdown = "serving"

\* faulty variant: the capacity test with < in place of <=
CanAdmitStrict(load, kw, cap) == load + kw < cap

\* faulty variant: the capacity test off by one kW
CanAdmitOverbook(load, kw, cap) == load + kw <= cap + 1

\* the capacity test of start_charging
CanAdmit(load, kw, cap) == load + kw <= cap

\* faulty variant: start_charging and stop_charging without `with self.lock:`
LockIgnored(s) == TRUE

\* threading.Lock: acquirable when no thread holds it
LockFree(s) == sub_lock[s] = NoThread

\* faulty variant: the `del` forgotten
DictKeep(d, k) == d

\* d with key k removed
DictDel(d, k) == [x \in (DOMAIN d) \ {k} |-> d[x]]

\* d with d[k] = v (a new key, or the value of an old one replaced)
DictPut(d, k, v) == [x \in (DOMAIN d) \cup {k} |-> IF x = k THEN v ELSE d[x]]

\* `session_id in self.charging_sessions`
SessionKnown(sessions, id) == id \in DOMAIN sessions

\* active_chargers after start_charging took its admitted or its rejected branch
ActiveAfterStart(n, admitted) == IF admitted THEN n + 1 ELSE n

\* faulty variant: the count decremented before the lookup
ActiveAlwaysDecremented(n, found) == n - 1

\* active_chargers after stop_charging took its found branch or returned False
ActiveAfterStop(n, found) == IF found THEN n - 1 ELSE n

\* the clock advances
Tick ==
    /\ now + 1 \in Times
    /\ now' = now + 1
    /\ UNCHANGED <<subVars, th, last, calls, lbVars, reqVars>>

\* POST /charge arrives at substation s: the handler calls start_charging
CallStart(t, s, ev, kw) ==
    /\ th[t].pc = "idle"
    /\ calls < MaxCalls
    /\ calls' = calls + 1
    /\ th' = [th EXCEPT ![t] = [IdleThread EXCEPT !.pc = "start_wait", !.sub = s,
                                 !.ev_id = ev, !.requested_kw = kw]]
    /\ UNCHANGED <<subVars, now, last, lbVars, reqVars>>

\* start_charging: `with self.lock:` and the test of the capacity
StartEnter(t) ==
    LET s == th[t].sub IN
    /\ th[t].pc = "start_wait"
    /\ LockFree(s)
    /\ sub_lock' = [sub_lock EXCEPT ![s] = t]
    /\ th' = [th EXCEPT ![t].pc = "start_body",
                        ![t].cond = CanAdmit(current_load[s], th[t].requested_kw,
                                             max_capacity[s])]
    /\ UNCHANGED <<substation_id, max_capacity, current_load, active_chargers,
                   charging_sessions, now, last, calls, lbVars, reqVars>>

\* start_charging: the admitted branch, or the rejected one; the lock is released
StartExit(t) ==
    LET s == th[t].sub
        id == SessionId(substation_id[s], th[t].ev_id, now)
    IN
    /\ th[t].pc = "start_body"
    /\ IF th[t].cond
       THEN /\ charging_sessions' =
                  [charging_sessions EXCEPT ![s] =
                      DictPut(@, id, [ev_id |-> th[t].ev_id,
                                      requested_kw |-> th[t].requested_kw,
                                      start_time |-> now])]
            /\ current_load' = [current_load EXCEPT ![s] = @ + th[t].requested_kw]
            /\ last' = [NoReturn EXCEPT !.op = "start", !.sub = s,
                                        !.ret_session = <<id>>]
       ELSE /\ last' = [NoReturn EXCEPT !.op = "start", !.sub = s]
            /\ UNCHANGED <<charging_sessions, current_load>>
    /\ active_chargers' = [active_chargers EXCEPT ![s] = ActiveAfterStart(@, th[t].cond)]
    /\ th' = [th EXCEPT ![t] = IdleThread]
    /\ sub_lock' = [sub_lock EXCEPT ![s] = NoThread]
    /\ route' = RouteDeliver(th[t].caller, t,
                             StartResponse(IF th[t].cond THEN <<id>> ELSE <<>>,
                                           substation_id[s]))
    /\ UNCHANGED <<substation_id, max_capacity, now, calls, lbVars, entry,
                   active_sessions>>

\* DELETE /charge/<session_id> arrives at substation s
CallStop(t, s, id) ==
    /\ th[t].pc = "idle"
    /\ calls < MaxCalls
    /\ calls' = calls + 1
    /\ th' = [th EXCEPT ![t] = [IdleThread EXCEPT !.pc = "stop_wait", !.sub = s,
                                 !.session_id = id]]
    /\ UNCHANGED <<subVars, now, last, lbVars, reqVars>>

\* stop_charging: `with self.lock:` and the lookup of the session id
StopEnter(t) ==
    LET s == th[t].sub IN
    /\ th[t].pc = "stop_wait"
    /\ LockFree(s)
    /\ sub_lock' = [sub_lock EXCEPT ![s] = t]
    /\ th' = [th EXCEPT ![t].pc = "stop_body",
                        ![t].cond = SessionKnown(charging_sessions[s], th[t].session_id)]
    /\ UNCHANGED <<substation_id, max_capacity, current_load, active_chargers,
                   charging_sessions, now, last, calls, lbVars, reqVars>>

\* stop_charging: the found branch, or `return False`; the lock is released
StopExit(t) ==
    LET s == th[t].sub
        id == th[t].session_id
    IN
    /\ th[t].pc = "stop_body"
    /\ IF th[t].cond
       THEN /\ current_load' =
                  [current_load EXCEPT ![s] = @ - charging_sessions[s][id].requested_kw]
            /\ charging_sessions' = [charging_sessions EXCEPT ![s] = DictDel(@, id)]
       ELSE UNCHANGED <<charging_sessions, current_load>>
    /\ active_chargers' = [active_chargers EXCEPT ![s] = ActiveAfterStop(@, th[t].cond)]
    /\ last' = [NoReturn EXCEPT !.op = "stop", !.sub = s, !.ret_ok = th[t].cond]
    /\ th' = [th EXCEPT ![t] = IdleThread]
    /\ sub_lock' = [sub_lock EXCEPT ![s] = NoThread]
    /\ entry' = EntryDeliver(th[t].caller, t, StopResponse(th[t].cond))
    /\ UNCHANGED <<substation_id, max_capacity, now, calls, lbVars, route,
                   active_sessions>>

(* ------------- one substation process under direct requests ----------- *)

\* the process the requests of SpecSub go to; every process runs the same code
\* and shares no state with another
Target == "s1"

\* the session ids a client may name in a stop request to Target
TargetSessionIds == {SessionId(1000, e, t) : e \in EvIds, t \in Times}

InitSub ==
    /\ InitProcesses
    /\ InitBalancer
    /\ substation_id = [s \in Subs |-> IF s = Target THEN 1000 ELSE 1001]
    /\ \A s \in Subs \ {Target} : max_capacity[s] = MaxCap

NextSub ==
    \/ Tick
    \/ \E t \in Threads, ev \in EvIds, kw \in KwValues : CallStart(t, Target, ev, kw)
    \/ \E t \in Threads : StartEnter(t)
    \/ \E t \in Threads : StartExit(t)
    \/ \E t \in Threads, id \in TargetSessionIds : CallStop(t, Target, id)
    \/ \E t \in Threads : StopEnter(t)
    \/ \E t \in Threads : StopExit(t)

SpecSub == InitSub /\ [][NextSub]_vars

\* N concurrent StartCharging calls against one substation process
NextStarts ==
    \/ Tick
    \/ \E t \in Threads, ev \in EvIds, kw \in KwValues : CallStart(t, Target, ev, kw)
    \/ \E t \in Threads : StartEnter(t)
    \/ \E t \in Threads : StartExit(t)

SpecStarts == InitSub /\ [][NextStarts]_vars

(* ------------------------ substation properties ----------------------- *)

RECURSIVE SumOver(_, _)
\* sum(session['requested_kw'] for the sessions of d whose ids are in ids)
SumOver(d, ids) ==
    IF ids = {} THEN 0
    ELSE LET k == CHOOSE x \in ids : TRUE
         IN d[k].requested_kw + SumOver(d, ids \ {k})

SessionKwSum(s) == SumOver(charging_sessions[s], DOMAIN charging_sessions[s])

\* thread t returns from start_charging in this step
StartReturns(t) == th[t].pc = "start_body" /\ th'[t].pc = "idle"

\* thread t returns from stop_charging in this step
StopReturns(t) == th[t].pc = "stop_body" /\ th'[t].pc = "idle"

SubstationUntouched ==
    UNCHANGED <<current_load, charging_sessions, active_chargers>>

\* C1: in every reachable state every substation's current_load is at most its
\* max_capacity, whatever starts and stops were interleaved.
C1_LoadWithinCapacity == \A s \in Subs : current_load[s] <= max_capacity[s]

\* C2: in every reachable state every substation's current_load equals the sum
\* of requested_kw over the sessions in charging_sessions, also after starts
\* whose generated session ids are equal.
C2_LoadIsSessionSum == \A s \in Subs : current_load[s] = SessionKwSum(s)

\* C3: when only StartCharging calls run, concurrently, against one substation,
\* current_load never exceeds max_capacity, and a call that returns reject
\* found current_load + requested_kw > max_capacity while it held the lock.
C3_ConcurrentStartsNoOvershoot ==
    /\ [](\A s \in Subs : current_load[s] <= max_capacity[s])
    /\ [][\A t \in Threads :
            (StartReturns(t) /\ last'.ret_session = <<>>) =>
                current_load[th[t].sub] + th[t].requested_kw > max_capacity[th[t].sub]]_vars

\* C3 witness: one call holds the lock and is about to be rejected while
\* another call waits for the lock and an earlier one was admitted.
C3_Witness ==
    \E t1, t2 \in Threads :
        /\ t1 # t2
        /\ th[t1].pc = "start_body" /\ ~th[t1].cond
        /\ th[t2].pc = "start_wait"
        /\ current_load[Target] > 0
        /\ current_load[Target] + th[t1].requested_kw > max_capacity[Target]

\* C4: a StartCharging call returns a session id exactly when current_load +
\* requested_kw <= max_capacity; then the session set holds, under the returned
\* id, a session with that requested_kw and current_load has grown by exactly
\* requested_kw.
C4_StartAcceptedIffFits ==
    [][\A t \in Threads :
        StartReturns(t) =>
            LET s == th[t].sub
                kw == th[t].requested_kw
                fits == current_load[s] + kw <= max_capacity[s]
            IN /\ (last'.ret_session # <<>>) <=> fits
               /\ fits =>
                    /\ Len(last'.ret_session) = 1
                    /\ last'.ret_session[1] \in DOMAIN charging_sessions'[s]
                    /\ charging_sessions'[s][last'.ret_session[1]].requested_kw = kw
                    /\ charging_sessions'[s][last'.ret_session[1]].ev_id = th[t].ev_id
                    /\ current_load'[s] = current_load[s] + kw]_vars

\* C4 witness: a start has returned a session id that is in the session set.
C4_Witness ==
    /\ last.op = "start"
    /\ last.ret_session # <<>>
    /\ last.ret_session[1] \in DOMAIN charging_sessions[last.sub]
    /\ current_load[last.sub] = max_capacity[last.sub]

\* C5: a StartCharging call whose requested_kw exceeds the remaining capacity
\* returns reject and leaves current_load, the session set and the
\* active-charger count as they were.
C5_RejectedStartChangesNothing ==
    [][\A t \in Threads :
        (StartReturns(t)
            /\ th[t].requested_kw > max_capacity[th[t].sub] - current_load[th[t].sub]) =>
                /\ last'.op = "start"
                /\ last'.ret_session = <<>>
                /\ SubstationUntouched]_vars

\* C5 witness: a start was rejected by a substation that has a session.
C5_Witness ==
    /\ last.op = "start"
    /\ last.ret_session = <<>>
    /\ charging_sessions[last.sub] # <<>>

\* C6: StopCharging of a session id in the session set returns true, removes
\* that session and no other, and lowers current_load by exactly that session's
\* requested_kw; a stop of an id that is not in the set (as right after its
\* stop) returns false; a start raises the load by what the stop of the
\* session it returned gives back.
C6_StopReleasesSession ==
    [][\A t \in Threads :
        /\ StopReturns(t) =>
            LET s == th[t].sub
                id == th[t].session_id
            IN IF id \in DOMAIN charging_sessions[s]
               THEN /\ last'.ret_ok
                    /\ DOMAIN charging_sessions'[s] = (DOMAIN charging_sessions[s]) \ {id}
                    /\ \A k \in DOMAIN charging_sessions'[s] :
                          charging_sessions'[s][k] = charging_sessions[s][k]
                    /\ current_load'[s] =
                          current_load[s] - charging_sessions[s][id].requested_kw
               ELSE ~last'.ret_ok
        /\ (StartReturns(t) /\ last'.ret_session # <<>>) =>
              current_load'[th[t].sub]
                  - charging_sessions'[th[t].sub][last'.ret_session[1]].requested_kw
              = current_load[th[t].sub]]_vars

\* C6 witness: a stop has returned true and the substation is back at no load
\* and no session.
C6_Witness ==
    /\ last.op = "stop"
    /\ last.ret_ok
    /\ calls >= 2
    /\ current_load[last.sub] = 0
    /\ charging_sessions[last.sub] = <<>>

\* C7: StopCharging of a session id that is not in the session set returns
\* false and leaves current_load, the session set and the active-charger count
\* unchanged.
C7_UnknownStopChangesNothing ==
    [][\A t \in Threads :
        (StopReturns(t) /\ th[t].session_id \notin DOMAIN charging_sessions[th[t].sub]) =>
            /\ last'.op = "stop"
            /\ ~last'.ret_ok
            /\ SubstationUntouched]_vars

\* C7 witness: a stop has returned false at a substation that has a session.
C7_Witness ==
    /\ last.op = "stop"
    /\ ~last.ret_ok
    /\ charging_sessions[last.sub] # <<>>

(* ------------------------------ balancer ------------------------------ *)

\* the index of url in the list or dict m, 0 when it is absent
RECURSIVE IndexFrom(_, _, _)
IndexFrom(urls, url, i) ==
    IF i > Len(urls) THEN 0
    ELSE IF urls[i] = url THEN i ELSE IndexFrom(urls, url, i + 1)

\* faulty variant: the membership test never finds the url
IndexNever(urls, url) == 0

IndexOf(urls, url) == IndexFrom(urls, url, 1)

\* the keys of the dict m, in its iteration order
Keys(m) == [i \in 1..Len(m) |-> m[i].url]

\* faulty variant: the last element is removed, whatever i is
RemoveLast(q, i) == [j \in 1..(Len(q) - 1) |-> q[j]]

\* list.remove(url), and `del dict[url]` on the key list
RemoveAt(q, i) == [j \in 1..(Len(q) - 1) |-> IF j < i THEN q[j] ELSE q[j + 1]]

\* faulty variant: the division without the test of total_capacity
LoadPercentageUnguarded(cl, tc) == [n |-> cl * 100, d |-> tc]

\* (current_load / total_capacity) * 100 if total_capacity > 0 else 0, kept as
\* the fraction n / d with d > 0: float division of these small integers
\* rounds equal fractions to equal floats and keeps the order of unequal ones
LoadPercentage(cl, tc) == IF tc > 0 THEN [n |-> cl * 100, d |-> tc] ELSE [n |-> 0, d |-> 1]

\* faulty variant: min() replaced by max()
PctGreater(p, q) == p.n * q.d > q.n * p.d

\* faulty variant: a later entry of equal load replaces the best one
PctLessOrEqual(p, q) == p.n * q.d <= q.n * p.d

\* p < q on load percentages
PctLess(p, q) == p.n * q.d < q.n * p.d

\* min(items, key=load_percentage): the scan keeps the first of the least
RECURSIVE MinFrom(_, _, _)
MinFrom(m, i, best) ==
    IF i > Len(m) THEN best
    ELSE MinFrom(m, i + 1,
                 IF PctLess(m[i].load_percentage, m[best].load_percentage)
                 THEN i ELSE best)

\* get_least_loaded_substation: <<>> for None, <<url>> otherwise
SelectTarget(m) == IF m = <<>> THEN <<>> ELSE <<m[MinFrom(m, 2, 1)].url>>

\* faulty variant: the write replaces the whole dict by the one entry
CachePutAlone(m, url, item) == <<item>>

\* self.substation_metrics[url] = item: an old key keeps its place, a new one
\* goes last
CachePut(m, url, item) ==
    IF IndexOf(Keys(m), url) > 0
    THEN [m EXCEPT ![IndexOf(Keys(m), url)] = item]
    ELSE Append(m, item)

\* `if url in self.substation_metrics: del self.substation_metrics[url]`
CacheDel(m, url) ==
    IF IndexOf(Keys(m), url) > 0 THEN RemoveAt(m, IndexOf(Keys(m), url)) ELSE m

\* add_substation, under the balancer lock
AddSubstation(url) ==
    /\ calls < MaxCalls
    /\ calls' = calls + 1
    /\ IF IndexOf(substations, url) = 0
       THEN /\ substations' = Append(substations, url)
            /\ polled' = polled \ {url}
            /\ last' = [NoReturn EXCEPT !.op = "add", !.sub = url, !.ret_ok = TRUE]
       ELSE /\ last' = [NoReturn EXCEPT !.op = "add", !.sub = url, !.ret_ok = FALSE]
            /\ UNCHANGED <<substations, polled>>
    /\ UNCHANGED <<subVars, now, th, substation_metrics, poll, running, shutdown, reqVars>>

\* remove_substation, under the balancer lock
RemoveSubstation(url) ==
    /\ calls < MaxCalls
    /\ calls' = calls + 1
    /\ IF IndexOf(substations, url) > 0
       THEN /\ substations' = RemoveAt(substations, IndexOf(substations, url))
            /\ substation_metrics' = CacheDel(substation_metrics, url)
            /\ last' = [NoReturn EXCEPT !.op = "remove", !.sub = url, !.ret_ok = TRUE]
       ELSE /\ last' = [NoReturn EXCEPT !.op = "remove", !.sub = url, !.ret_ok = FALSE]
            /\ UNCHANGED <<substations, substation_metrics>>
    /\ UNCHANGED <<subVars, now, th, poll, polled, running, shutdown, reqVars>>

\* get_least_loaded_substation, under the balancer lock
GetLeastLoaded ==
    /\ last' = [NoReturn EXCEPT !.op = "select",
                                !.ret_url = SelectTarget(substation_metrics)]
    /\ UNCHANGED <<subVars, now, th, calls, lbVars, reqVars>>

\* faulty variant: the loop never looks at the flag
LoopForever(flag) == TRUE

\* `while self.running`
LoopContinues(flag) == flag

\* poll_all_substations: `substations_to_poll = self.substations.copy()` and
\* the release of the lock, by the polling thread at position at
PollCopyAt(at) ==
    /\ poll.pc = at
    /\ poll' = [poll EXCEPT !.pc = "visit", !.to_poll = substations]
    /\ UNCHANGED <<subVars, now, th, last, calls, substations, substation_metrics, polled,
                   running, shutdown, reqVars>>

\* poll_all_substations: the loop goes on, the copy of the registry taken under
\* the lock
PollSnapshot == LoopContinues(running) /\ PollCopyAt("top")

\* generate_latest() of substation s: the sample lines of its gauges, in the
\* order the gauges were created; current_load and active_chargers are set
\* under the substation's lock at every change, total_capacity in __init__
MetricsText(s) ==
    <<[name |-> "current_load", value |-> current_load[s]],
      [name |-> "active_chargers", value |-> active_chargers[s]],
      [name |-> "total_capacity", value |-> max_capacity[s]]>>

\* faulty variant: the scan stops at the first sample line
RECURSIVE ParseFirstLine(_, _, _, _)
ParseFirstLine(text, i, name, found) ==
    IF i > Len(text) \/ i > 1 THEN found
    ELSE ParseFirstLine(text, i + 1, name,
                        IF text[i].name = name THEN text[i].value ELSE found)

\* `for line in metrics_text.split('\n'): if line.startswith(name + ' '):
\* ... = float(line.split(' ')[1])`: the value of the last line of that name,
\* or what the variable held before the loop
RECURSIVE ParseGauge(_, _, _, _)
ParseGauge(text, i, name, found) ==
    IF i > Len(text) THEN found
    ELSE ParseGauge(text, i + 1, name,
                    IF text[i].name = name THEN text[i].value ELSE found)

\* poll_substation_metrics: GET /metrics answers 200 and the text is parsed,
\* with current_load = 0 and total_capacity = 1 before the loop
PollFetch ==
    /\ poll.pc = "visit"
    /\ poll.to_poll # <<>>
    /\ poll' = [poll EXCEPT
                  !.pc = "fetched",
                  !.current_load =
                      ParseGauge(MetricsText(Head(poll.to_poll)), 1, "current_load",
                                 PollerAtTop.current_load),
                  !.total_capacity =
                      ParseGauge(MetricsText(Head(poll.to_poll)), 1, "total_capacity",
                                 PollerAtTop.total_capacity)]
    /\ UNCHANGED <<subVars, now, th, last, calls, substations, substation_metrics, polled,
                   running, shutdown, reqVars>>

\* faulty variant: a failed fetch evicts the endpoint's entry
FailedPollEvicts(m, url) == CacheDel(m, url)

\* poll_substation_metrics: the branches that return False write nothing
FailedPollCache(m, url) == m

\* faulty variant: a fetch that failed ends the cycle
CycleAbandoned(q) == <<>>

\* `for substation_url in substations_to_poll`: the return value of
\* poll_substation_metrics is not looked at, the loop goes to the next url
RestOfCycle(q) == Tail(q)

\* poll_substation_metrics: the GET fails (status, timeout, connection) and
\* the call returns False
PollFail ==
    /\ poll.pc = "visit"
    /\ poll.to_poll # <<>>
    /\ poll' = [poll EXCEPT !.to_poll = RestOfCycle(poll.to_poll)]
    /\ substation_metrics' = FailedPollCache(substation_metrics, Head(poll.to_poll))
    /\ last' = [NoReturn EXCEPT !.op = "poll", !.sub = Head(poll.to_poll),
                                !.ret_ok = FALSE]
    /\ UNCHANGED <<subVars, now, th, calls, substations, polled, running, shutdown, reqVars>>

\* poll_substation_metrics: the write of the cache entry and the release of
\* the lock, by the polling thread at position at; the call returns True
PollStoreAt(at) ==
    LET url == Head(poll.to_poll) IN
    /\ poll.pc = at
    /\ substation_metrics' =
          CachePut(substation_metrics, url,
                   [url |-> url,
                    current_load |-> poll.current_load,
                    total_capacity |-> poll.total_capacity,
                    load_percentage |->
                        LoadPercentage(poll.current_load, poll.total_capacity),
                    last_updated |-> now])
    /\ polled' = polled \cup {url}
    /\ poll' = [PollerAtTop EXCEPT !.pc = "visit", !.to_poll = Tail(poll.to_poll)]
    /\ last' = [NoReturn EXCEPT !.op = "poll", !.sub = url, !.ret_ok = TRUE]
    /\ UNCHANGED <<subVars, now, th, calls, substations, running, shutdown, reqVars>>

\* poll_substation_metrics: the cache entry written under the lock, and the
\* call returns True
PollWrite == PollStoreAt("fetched")

\* poll_all_substations: the cycle is over, time.sleep, and the loop goes on
PollSleep ==
    /\ poll.pc = "visit"
    /\ poll.to_poll = <<>>
    /\ poll' = PollerAtTop
    /\ UNCHANGED <<subVars, now, th, last, calls, substations, substation_metrics, polled,
                   running, shutdown, reqVars>>

\* poll_all_substations: the loop ends and the polling thread with it
PollExit ==
    /\ poll.pc = "top"
    /\ ~LoopContinues(running)
    /\ poll' = [poll EXCEPT !.pc = "done"]
    /\ UNCHANGED <<subVars, now, th, last, calls, substations, substation_metrics, polled,
                   running, shutdown, reqVars>>

\* stop_polling: self.running = False; the polling thread was started at
\* process start, so the join follows
StopPolling ==
    /\ shutdown = "serving"
    /\ running' = FALSE
    /\ shutdown' = "join"
    /\ UNCHANGED <<subVars, now, th, last, calls, substations, substation_metrics, poll,
                   polled, reqVars>>

\* stop_polling: self.polling_thread.join() returns once the thread has ended
JoinReturns ==
    /\ shutdown = "join"
    /\ poll.pc = "done"
    /\ shutdown' = "stopped"
    /\ UNCHANGED <<subVars, now, th, last, calls, substations, substation_metrics, poll,
                   polled, running, reqVars>>

\* the handler thread and the inputs of the requests sent straight to the
\* substations while the balancer runs
LoadThreads == {1}
LoadEvIds == {"EV_A"}

\* the substations behind one balancer may differ in capacity
InitLB ==
    /\ substation_id = [s \in Subs |-> IF s = Target THEN 1000 ELSE 1001]
    /\ max_capacity \in {c \in [Subs -> {MaxCap, MaxCap + 1}] : c[Target] = MaxCap}
    /\ current_load = [s \in Subs |-> 0]
    /\ active_chargers = [s \in Subs |-> 0]
    /\ charging_sessions = [s \in Subs |-> <<>>]
    /\ sub_lock = [s \in Subs |-> NoThread]
    /\ now = 0
    /\ th = [t \in Threads |-> IdleThread]
    /\ last = NoReturn
    /\ calls = 0
    /\ InitRequests
    /\ InitBalancer
    /\ substation_id = [s \in Subs |-> IF s = Target THEN 1000 ELSE 1001]

\* the balancer with its polling thread, registry requests, selections, and
\* start and stop requests changing the substations' loads
NextLB ==
    \/ \E url \in Subs : AddSubstation(url)
    \/ \E url \in Subs : RemoveSubstation(url)
    \/ GetLeastLoaded
    \/ PollSnapshot
    \/ PollFetch
    \/ PollFail
    \/ PollWrite
    \/ PollSleep
    \/ \E t \in LoadThreads, s \in Subs, ev \in LoadEvIds, kw \in KwValues :
          CallStart(t, s, ev, kw)
    \/ \E t \in LoadThreads : StartEnter(t)
    \/ \E t \in LoadThreads : StartExit(t)
    \/ \E t \in LoadThreads, s \in Subs, ev \in LoadEvIds :
          CallStop(t, s, SessionId(substation_id[s], ev, now))
    \/ \E t \in LoadThreads : StopEnter(t)
    \/ \E t \in LoadThreads : StopExit(t)

SpecLB == InitLB /\ [][NextLB]_vars

(* ------------------------- balancer properties ------------------------ *)

\* get_least_loaded_substation returns in this step
SelectReturns ==
    /\ last'.op = "select"
    /\ UNCHANGED <<subVars, now, th, calls, lbVars, reqVars>>

\* entry i of the cache m has a load percentage no greater than any entry's
IsLeast(m, i) ==
    \A j \in 1..Len(m) :
        m[i].load_percentage.n * m[j].load_percentage.d
            <= m[j].load_percentage.n * m[i].load_percentage.d

\* C8: a selection made while the telemetry cache is non-empty returns an
\* endpoint of the cache whose cached load_percentage is the minimum over all
\* cached entries.
C8_SelectReturnsMinimum ==
    [][(SelectReturns /\ substation_metrics # <<>>) =>
          \E i \in 1..Len(substation_metrics) :
              /\ last'.ret_url = <<substation_metrics[i].url>>
              /\ IsLeast(substation_metrics, i)]_vars

\* C8 witness: the cache holds two entries, the second one strictly less loaded
\* than the first, and the selection has returned the second.
C8_Witness ==
    /\ last.op = "select"
    /\ Len(substation_metrics) = 2
    /\ last.ret_url = <<substation_metrics[2].url>>
    /\ ~IsLeast(substation_metrics, 1)
    /\ substation_metrics[1].current_load = current_load[substation_metrics[1].url]

\* C9: a selection returns None exactly when the telemetry cache is empty, with
\* one cached endpoint it returns that endpoint, and it never returns an
\* endpoint that has had no successful poll since it was registered.
C9_SelectOnlyPolledSinceRegistered ==
    [][SelectReturns =>
          /\ (last'.ret_url = <<>>) <=> (substation_metrics = <<>>)
          /\ Len(substation_metrics) = 1 =>
                last'.ret_url = <<substation_metrics[1].url>>
          /\ last'.ret_url # <<>> => last'.ret_url[1] \in polled]_vars

\* the cached endpoints of least load percentage
LeastLoaded(m) == {m[i].url : i \in {k \in 1..Len(m) : IsLeast(m, k)}}

\* C10 as claimed: among the cached entries of least load_percentage the
\* selection returns the one that comes first in the registry (stated for the
\* selections made while every cached endpoint is registered).
C10_TieBreakRegistryOrder ==
    [][(SelectReturns /\ substation_metrics # <<>>
            /\ \A i \in 1..Len(substation_metrics) :
                   IndexOf(substations, substation_metrics[i].url) > 0) =>
          /\ Len(last'.ret_url) = 1
          /\ last'.ret_url[1] \in LeastLoaded(substation_metrics)
          /\ \A u \in LeastLoaded(substation_metrics) :
                IndexOf(substations, last'.ret_url[1]) <= IndexOf(substations, u)]_vars

\* C10 as amended: among the cached entries of least load_percentage the
\* selection returns the one that comes first in the telemetry cache, that is,
\* the one whose entry was inserted first (by its first successful poll since
\* its entry was last deleted).
C10_TieBreakCacheOrder ==
    [][(SelectReturns /\ substation_metrics # <<>>) =>
          /\ Len(last'.ret_url) = 1
          /\ last'.ret_url[1] \in LeastLoaded(substation_metrics)
          /\ \A u \in LeastLoaded(substation_metrics) :
                IndexOf(Keys(substation_metrics), last'.ret_url[1])
                    <= IndexOf(Keys(substation_metrics), u)]_vars

\* C10 witness: two registered endpoints are cached with equal load
\* percentages, the cache holds them in the reverse of the registry's order,
\* and the selection has returned the first of the cache.
C10_Witness ==
    /\ last.op = "select"
    /\ Len(substation_metrics) = 2
    /\ Len(substations) = 2
    /\ IsLeast(substation_metrics, 1) /\ IsLeast(substation_metrics, 2)
    /\ Keys(substation_metrics) = <<substations[2], substations[1]>>
    /\ last.ret_url = <<substations[2]>>


(* ------------------------------- router ------------------------------- *)

\* "No available substations"
NoSubstationsError == [text |-> "No available substations", status |-> 0]

\* faulty variant: a substation's refusal reported as the lack of substations
SubstationErrorAsNone(status) == [text |-> "No available substations", status |-> 0]

\* f"Substation error: {response.status_code}"
SubstationError(status) == [text |-> "Substation error: ", status |-> status]

\* str(e) of the exception requests.post raised: a timeout or a connection
\* error, either one a text that names the failed connection
TransportError == [text |-> "HTTPConnectionPool: request failed", status |-> 0]

\* faulty variant: with an empty cache the call falls back to a fixed endpoint
RouteTargetFallback(m) == IF m = <<>> THEN <<Target>> ELSE SelectTarget(m)

\* substation_url = self.get_least_loaded_substation()
RouteTarget(m) == SelectTarget(m)

\* faulty variant: a rejected start command is sent again
RouteRetried(rt) ==
    IF rt.pc = "responded" /\ rt.response.status = 503
    THEN [rt EXCEPT !.pc = "post"] ELSE IdleRoute

\* `return result, None` and `return None, error`: the thread leaves
\* route_charging_request and the handler
RouteReturned(rt) == IdleRoute

\* the balancer's answer to POST /charge: 200 with the substation's result, or
\* 503 with the error
RouteResponse(resp, error) ==
    IF error = NoError THEN resp ELSE [NoResponse EXCEPT !.status = 503]

\* the answer of balancer thread r reaches the entry-point thread e that sent
\* the request, if e still waits for it
SubmitDeliver(e, r, resp) ==
    IF e \in EntryThreads /\ entry[e].pc = "submit_await" /\ entry[e].handler = r
    THEN [entry EXCEPT ![e].pc = "submit_responded", ![e].response = resp]
    ELSE entry

\* route_charging_request returns (result, error) to the handler, which answers
RouteReturn(r, resp, error) ==
    /\ route' = [route EXCEPT ![r] = RouteReturned(route[r])]
    /\ last' = [NoReturn EXCEPT !.op = "route",
                                !.sub = IF route[r].target = <<>> THEN "s1"
                                        ELSE route[r].target[1],
                                !.ret_session = resp.session_id,
                                !.ret_url = route[r].target,
                                !.ret_error = error,
                                !.requested_kw = route[r].requested_kw]
    /\ entry' = SubmitDeliver(route[r].caller, r, RouteResponse(resp, error))

\* POST /charge arrives at the balancer, from entry-point thread e or, with
\* e = NoThread, from another client
RouteCall(r, ev, kw, e) ==
    /\ route[r].pc = "idle"
    /\ route' = [route EXCEPT ![r] = [IdleRoute EXCEPT !.pc = "select", !.ev_id = ev,
                                                        !.requested_kw = kw,
                                                        !.caller = e]]

\* a client other than the entry point sends POST /charge to the balancer
CallRoute(r, ev, kw) ==
    /\ calls < MaxCalls
    /\ calls' = calls + 1
    /\ RouteCall(r, ev, kw, NoThread)
    /\ UNCHANGED <<subVars, now, th, last, lbVars, entry, active_sessions>>

\* get_least_loaded_substation's body and the release of the lock, and
\* `if not substation_url`, by balancer thread r at position at
RouteSelectAt(r, at) ==
    LET target == RouteTarget(substation_metrics) IN
    /\ route[r].pc = at
    /\ IF target = <<>>
       THEN RouteReturn(r, NoResponse, NoSubstationsError)
       ELSE /\ route' = [route EXCEPT ![r].pc = "post", ![r].target = target]
            /\ UNCHANGED <<last, entry>>
    /\ UNCHANGED <<subVars, now, th, calls, lbVars, active_sessions>>

\* route_charging_request: the selection, and `if not substation_url`
RouteSelect(r) == RouteSelectAt(r, "select")

\* requests.post(f"{substation_url}/charge"): the start command reaches the
\* substation, whose handler thread t calls start_charging
RoutePost(r, t) ==
    /\ route[r].pc = "post"
    /\ th[t].pc = "idle"
    /\ th' = [th EXCEPT ![t] = [IdleThread EXCEPT !.pc = "start_wait",
                                                  !.sub = route[r].target[1],
                                                  !.ev_id = route[r].ev_id,
                                                  !.requested_kw = route[r].requested_kw,
                                                  !.caller = r]]
    /\ route' = [route EXCEPT ![r].pc = "await",
                              ![r].sent_to = Append(@, route[r].target[1]),
                              ![r].handler = t]
    /\ UNCHANGED <<subVars, now, last, calls, lbVars, entry, active_sessions>>

\* requests.post raises before the command reaches the substation (connection
\* refused, name not resolved)
RouteConnectFail(r) ==
    /\ route[r].pc = "post"
    /\ RouteReturn(r, NoResponse, TransportError)
    /\ UNCHANGED <<subVars, now, th, calls, lbVars, active_sessions>>

\* requests.post raises after the command was sent: the 10 s timeout passes, or
\* the answer is lost
RouteTimeout(r) ==
    /\ route[r].pc \in {"await", "responded"}
    /\ RouteReturn(r, NoResponse, TransportError)
    /\ UNCHANGED <<subVars, now, th, calls, lbVars, active_sessions>>

\* the substation's answer has arrived: status 200, or another status
RouteAnswer(r) ==
    /\ route[r].pc = "responded"
    /\ IF route[r].response.status = 200
       THEN RouteReturn(r, route[r].response, NoError)
       ELSE RouteReturn(r, NoResponse, SubstationError(route[r].response.status))
    /\ UNCHANGED <<subVars, now, th, calls, lbVars, active_sessions>>

\* the balancer's handler thread and the substations' handler thread while
\* clients send charge requests to the balancer
Router == 1
RouterThreads == {Router}

\* the balancer with its polling thread, registry requests and charge requests,
\* and stop requests sent to the substations
NextRoute ==
    \/ \E url \in Subs : AddSubstation(url)
    \/ \E url \in Subs : RemoveSubstation(url)
    \/ PollSnapshot
    \/ PollFetch
    \/ PollFail
    \/ PollWrite
    \/ PollSleep
    \/ \E r \in RouterThreads, ev \in LoadEvIds, kw \in KwValues : CallRoute(r, ev, kw)
    \/ \E r \in RouterThreads : RouteSelect(r)
    \/ \E r \in RouterThreads, t \in LoadThreads : RoutePost(r, t)
    \/ \E r \in RouterThreads : RouteConnectFail(r)
    \/ \E r \in RouterThreads : RouteTimeout(r)
    \/ \E r \in RouterThreads : RouteAnswer(r)
    \/ \E t \in LoadThreads : StartEnter(t)
    \/ \E t \in LoadThreads : StartExit(t)
    \/ \E t \in LoadThreads, s \in Subs, ev \in LoadEvIds :
          CallStop(t, s, SessionId(substation_id[s], ev, now))
    \/ \E t \in LoadThreads : StopEnter(t)
    \/ \E t \in LoadThreads : StopExit(t)

SpecRoute == InitLB /\ [][NextRoute]_vars


(* -------------------------- router properties ------------------------- *)

\* substation thread t takes up, in this step, a start command that balancer
\* thread r sent
StartCommandSent(r, t) ==
    /\ th[t].pc = "idle"
    /\ th'[t].pc = "start_wait"
    /\ th'[t].caller = r

\* balancer thread r returns from route_charging_request in this step
RouteReturns(r) == route[r].pc # "idle" /\ route'[r].pc = "idle"

\* C11: one Route call sends at most one start command, and only to the
\* endpoint its selection returned; when the substation rejects the command or
\* the transport fails, the call returns an error and sends nothing more, to
\* this or to any other substation.
C11_RouteSendsAtMostOnce ==
    /\ [](\A r \in RouteThreads :
            /\ Len(route[r].sent_to) <= 1
            /\ route[r].sent_to # <<>> => route[r].sent_to = route[r].target)
    /\ [][\A r \in RouteThreads :
            /\ (route[r].pc = "select" /\ route'[r].pc = "post") =>
                  route'[r].target = SelectTarget(substation_metrics)
            /\ \A t \in Threads :
                  StartCommandSent(r, t) =>
                      /\ route[r].sent_to = <<>>
                      /\ <<th'[t].sub>> = route[r].target
            /\ (route[r].pc \in {"await", "responded"} /\ route'[r] # route[r]) =>
                  \/ route[r].pc = "await" /\ route'[r].pc = "responded"
                        /\ route'[r].sent_to = route[r].sent_to
                  \/ /\ RouteReturns(r)
                     /\ last'.op = "route"
                     /\ (last'.ret_error = NoError) <=>
                            (route[r].pc = "responded"
                                /\ route[r].response.status = 200
                                /\ last'.ret_session # <<>>)
                     /\ \A t \in Threads : ~StartCommandSent(r, t)]_vars

\* C11 witness: a Route call has returned the substation's rejection while
\* another registered and cached substation has room for the requested kW.
C11_Witness ==
    /\ last.op = "route"
    /\ last.ret_error = SubstationError(503)
    /\ \E i \in 1..Len(substation_metrics) :
          LET u == substation_metrics[i].url IN
          /\ u # last.sub
          /\ IndexOf(substations, u) > 0
          /\ current_load[u] + last.requested_kw <= max_capacity[u]


\* C12: a Route call whose selection returns None returns the error 'No
\* available substations', sends no start command, and leaves the state of
\* every substation unchanged.
C12_NoTargetNoCommand ==
    [][\A r \in RouteThreads :
          (route[r].pc = "select" /\ route'[r] # route[r]
              /\ SelectTarget(substation_metrics) = <<>>) =>
                /\ RouteReturns(r)
                /\ last'.op = "route"
                /\ last'.ret_error = NoSubstationsError
                /\ last'.ret_session = <<>>
                /\ route[r].sent_to = <<>> /\ route'[r].sent_to = <<>>
                /\ \A t \in Threads : ~StartCommandSent(r, t)
                /\ UNCHANGED <<subVars, th>>]_vars

\* C12 witness: a Route call has returned 'No available substations' while a
\* substation was registered and had not been polled yet.
C12_Witness ==
    /\ last.op = "route"
    /\ last.ret_error = NoSubstationsError
    /\ substations # <<>>
    /\ substation_metrics = <<>>


\* self.substation_metrics.get(url): <<>> for None, <<entry>> otherwise
EntryOf(m, url) ==
    IF IndexOf(Keys(m), url) > 0 THEN <<m[IndexOf(Keys(m), url)]>> ELSE <<>>

\* the poller writes the cache entry of url in this step, after a fetch that
\* succeeded
PollWrites(url) ==
    /\ poll.pc = "fetched"
    /\ poll'.pc = "visit"
    /\ Head(poll.to_poll) = url

\* remove_substation(url) returns in this step
RemoveReturns(url) ==
    /\ calls' = calls + 1
    /\ last'.op = "remove"
    /\ last'.sub = url
    /\ UNCHANGED <<th, reqVars>>

\* remove_substation(url) returns True in this step
Removes(url) ==
    /\ IndexOf(substations, url) > 0
    /\ RemoveReturns(url)
    /\ last'.ret_ok

\* C13: the cached telemetry of an endpoint changes only in a successful poll
\* of that endpoint or in its removal from the registry; the steps of Route,
\* StartCharging and StopCharging leave the registry and the cache unchanged;
\* so as long as no poll is written and no endpoint removed, the selection
\* returns the same endpoint, whatever the actual loads have become.
C13_CacheChangesOnlyByPoll ==
    [][/\ \A url \in Subs :
            EntryOf(substation_metrics', url) # EntryOf(substation_metrics, url) =>
                PollWrites(url) \/ Removes(url)
       /\ (route' # route \/ th' # th) =>
            UNCHANGED <<substations, substation_metrics>>
       /\ (\A url \in Subs : ~PollWrites(url) /\ ~Removes(url)) =>
            SelectTarget(substation_metrics') = SelectTarget(substation_metrics)]_vars

\* C13 witness: a Route call has started a session at the endpoint the
\* selection returned, which now carries more load than its cached entry says
\* and more than the other cached endpoint, and the selection still returns it.
C13_Witness ==
    /\ last.op = "route"
    /\ last.ret_session # <<>>
    /\ Len(substation_metrics) = 2
    /\ SelectTarget(substation_metrics) = <<last.sub>>
    /\ EntryOf(substation_metrics, last.sub)[1].current_load < current_load[last.sub]
    /\ \E u \in Subs \ {last.sub} :
          /\ EntryOf(substation_metrics, u) # <<>>
          /\ current_load[u] = 0


\* C14: the error a Route call returns tells its cause: 'No available
\* substations' exactly for a selection that returned None, 'Substation error:
\* 503' only after the chosen substation refused the command for lack of
\* capacity, the exception's text only when requests.post raised; the three
\* errors differ from each other, and no call that met one of the three causes
\* returns a result.
C14_RouteErrorsTellCause ==
    /\ [](/\ NoSubstationsError # SubstationError(503)
          /\ NoSubstationsError # TransportError
          /\ SubstationError(503) # TransportError
          /\ NoError \notin {NoSubstationsError, SubstationError(503), TransportError})
    /\ [][\A r \in RouteThreads :
            /\ RouteReturns(r) =>
                /\ last'.op = "route"
                /\ last'.ret_error \in {NoError, NoSubstationsError,
                                        SubstationError(503), TransportError}
                /\ (last'.ret_error = NoError) <=> (last'.ret_session # <<>>)
                /\ (last'.ret_error = NoSubstationsError) <=>
                      (route[r].pc = "select" /\ SelectTarget(substation_metrics) = <<>>)
                /\ (last'.ret_error = SubstationError(503)) =>
                      (route[r].pc = "responded" /\ route[r].response.status = 503)
                /\ (last'.ret_error = NoError) =>
                      (route[r].pc = "responded" /\ route[r].response.status = 200)
                /\ (last'.ret_error = TransportError) =>
                      route[r].pc \in {"post", "await", "responded"}
                /\ route[r].pc \in {"post", "await"} => last'.ret_error = TransportError
                /\ (route[r].pc = "responded" /\ route[r].response.status = 503) =>
                      last'.ret_error \in {SubstationError(503), TransportError}
            /\ \A t \in Threads :
                  (StartReturns(t) /\ th[t].caller = r /\ route[r].pc = "await"
                      /\ route[r].handler = t) =>
                        /\ route'[r].pc = "responded"
                        /\ (route'[r].response.status = 503) <=>
                              (current_load[th[t].sub] + th[t].requested_kw
                                  > max_capacity[th[t].sub])
                        /\ (route'[r].response.status = 200) <=>
                              (current_load[th[t].sub] + th[t].requested_kw
                                  <= max_capacity[th[t].sub])]_vars

\* C14 witness: a Route call has returned the text of the exception after its
\* start command was sent, and the substation has refused that command.
C14_Witness ==
    /\ last.op = "route"
    /\ last.ret_error = TransportError
    /\ last.ret_url # <<>>
    /\ current_load[last.sub] + last.requested_kw > max_capacity[last.sub]
    /\ \A t \in Threads : th[t].pc = "idle"


(* ------------------------- registry and poller ------------------------ *)

\* poll_substation_metrics(url) returns False in this step
PollFails(url) ==
    /\ poll.pc = "visit"
    /\ poll.to_poll # <<>>
    /\ Head(poll.to_poll) = url
    /\ poll'.pc = "visit"
    /\ poll'.to_poll = Tail(poll.to_poll)

\* C15: a telemetry fetch that fails leaves the endpoint's previous cache
\* entry, every other cache entry and the registry unchanged.
C15_FailedPollKeepsCache ==
    [][\A url \in Subs :
          PollFails(url) =>
              /\ last'.op = "poll" /\ last'.sub = url /\ ~last'.ret_ok
              /\ EntryOf(substation_metrics', url) = EntryOf(substation_metrics, url)
              /\ substation_metrics' = substation_metrics
              /\ substations' = substations]_vars

\* C15 witness: the fetch of an endpoint has failed while the cache held two
\* entries, and the entry of that endpoint, written by an earlier poll, is
\* still there although the endpoint's load has changed since.
C15_Witness ==
    /\ last.op = "poll"
    /\ ~last.ret_ok
    /\ Len(substation_metrics) = 2
    /\ EntryOf(substation_metrics, last.sub) # <<>>
    /\ EntryOf(substation_metrics, last.sub)[1].current_load # current_load[last.sub]


\* the list q without its elements equal to url, the others in their order
Without(q, url) == SelectSeq(q, LAMBDA u : u # url)

\* C16: Remove returns true and deletes the endpoint from the registry when it
\* is registered, and returns false and changes nothing when it is not; a
\* second Remove of the same endpoint right after one that returned true
\* returns false.
C16_RemoveTrueThenFalse ==
    [][\A url \in Subs :
          RemoveReturns(url) =>
              /\ IF IndexOf(substations, url) > 0
                 THEN /\ last'.ret_ok
                      /\ IndexOf(substations', url) = 0
                      /\ substations' = Without(substations, url)
                 ELSE /\ ~last'.ret_ok
                      /\ UNCHANGED <<subVars, now, th, lbVars, reqVars>>
              /\ (last.op = "remove" /\ last.sub = url /\ last.ret_ok) =>
                    ~last'.ret_ok]_vars

\* C16 witness: the Remove of an endpoint that was registered, polled and then
\* removed has returned false.
C16_Witness ==
    /\ last.op = "remove"
    /\ ~last.ret_ok
    /\ last.sub \in polled
    /\ IndexOf(substations, last.sub) = 0
    /\ calls >= 3


\* add_substation(url) returns in this step
AddReturns(url) ==
    /\ calls' = calls + 1
    /\ last'.op = "add"
    /\ last'.sub = url
    /\ UNCHANGED <<th, reqVars>>

\* C17: an Add of an endpoint that is not registered (as after a Remove of it
\* that returned true) returns true, and at that moment the cache holds no
\* entry for the endpoint, whatever the poller did in between.
C17_ReAddStartsUncached ==
    [][\A url \in Subs :
          AddReturns(url) =>
              /\ IndexOf(substations, url) = 0 => last'.ret_ok
              /\ last'.ret_ok => EntryOf(substation_metrics', url) = <<>>]_vars


\* C18: Add returns true and appends the endpoint when it is not registered,
\* and returns false and leaves the registry unchanged when it is; the
\* registry never holds an endpoint twice, whatever Adds and Removes ran.
C18_AddKeepsRegistryDistinct ==
    /\ [](\A i, j \in 1..Len(substations) :
            i # j => substations[i] # substations[j])
    /\ [][\A url \in Subs :
            AddReturns(url) =>
                IF \E i \in 1..Len(substations) : substations[i] = url
                THEN /\ ~last'.ret_ok
                     /\ UNCHANGED <<subVars, now, lbVars>>
                ELSE /\ last'.ret_ok
                     /\ substations' = Append(substations, url)]_vars

\* C18 witness: with two endpoints registered, the Add of one of them has
\* returned false.
C18_Witness ==
    /\ last.op = "add"
    /\ ~last.ret_ok
    /\ Len(substations) = 2


(* ----------------------------- entry point ---------------------------- *)

\* 'Session not found'
SessionNotFoundError == [text |-> "Session not found", status |-> 0]

\* f'Load balancer error: {response.status_code}'
LoadBalancerError(status) == [text |-> "Load balancer error: ", status |-> status]

\* 'No session ID returned'
NoSessionIdError == [text |-> "No session ID returned", status |-> 0]

\* f'Failed to stop session: {response.status_code}'
StopFailedError(status) == [text |-> "Failed to stop session: ", status |-> status]

\* str(e) of the KeyError that `del self.active_sessions[session_id]` raises
KeyErrorText == [text |-> "KeyError: session_id", status |-> 0]

\* faulty variant: only a substation of the balancer's registry is reached
ResolveRegistered(sid) ==
    {s \in Subs : substation_id[s] = sid /\ IndexOf(substations, s) > 0}

\* the substation processes that f"http://substation_{substation_id}:5000"
\* may name: those whose substation_id is the tracked one
Resolve(sid) == {s \in Subs : substation_id[s] = sid}

\* the tracked record of a session
TrackedRecord(ev, kw, sid, t) ==
    [ev_id |-> ev, requested_kw |-> kw, substation_id |-> sid, start_time |-> t]

\* submit_charging_request or stop_charging_session returns to its handler,
\* which answers the client
EntryReturn(e, op, session, error) ==
    /\ entry' = [entry EXCEPT ![e] = IdleEntry]
    /\ last' = [NoReturn EXCEPT !.op = op,
                                !.ret_session = session,
                                !.ret_ok = (error = NoError),
                                !.ret_error = error,
                                !.requested_kw = entry[e].requested_kw]

\* POST /charge arrives at the entry point, as one of at most limit requests
CallSubmitWithin(e, ev, kw, limit) ==
    /\ entry[e].pc = "idle"
    /\ calls < limit
    /\ calls' = calls + 1
    /\ entry' = [entry EXCEPT ![e] = [IdleEntry EXCEPT !.pc = "submit_post",
                                                        !.ev_id = ev,
                                                        !.requested_kw = kw]]
    /\ UNCHANGED <<subVars, now, th, last, lbVars, route, active_sessions>>

\* POST /charge arrives at the entry point
CallSubmit(e, ev, kw) == CallSubmitWithin(e, ev, kw, MaxCalls)

\* submit_charging_request: requests.post(f"{load_balancer_url}/charge")
\* reaches the balancer, whose handler thread r takes it
SubmitPost(e, r) ==
    /\ entry[e].pc = "submit_post"
    /\ RouteCall(r, entry[e].ev_id, entry[e].requested_kw, e)
    /\ entry' = [entry EXCEPT ![e].pc = "submit_await", ![e].handler = r]
    /\ UNCHANGED <<subVars, now, th, last, calls, lbVars, active_sessions>>

\* submit_charging_request: requests.post raises before the request reaches
\* the balancer
SubmitConnectFail(e) ==
    /\ entry[e].pc = "submit_post"
    /\ EntryReturn(e, "submit", <<>>, TransportError)
    /\ UNCHANGED <<subVars, now, th, calls, lbVars, route, active_sessions>>

\* submit_charging_request: requests.post raises after the request was sent:
\* the 30 s timeout passes, or the answer is lost
SubmitTimeout(e) ==
    /\ entry[e].pc \in {"submit_await", "submit_responded"}
    /\ EntryReturn(e, "submit", <<>>, TransportError)
    /\ UNCHANGED <<subVars, now, th, calls, lbVars, route, active_sessions>>

\* submit_charging_request after the balancer's answer, by entry-point thread
\* e at position at: on 200 with a session id the session is recorded and the
\* lock released
SubmitAnswerAt(e, at) ==
    LET resp == entry[e].response IN
    /\ entry[e].pc = at
    /\ IF resp.status = 200
       THEN IF resp.session_id # <<>>
            THEN /\ active_sessions' =
                       DictPut(active_sessions, resp.session_id[1],
                               TrackedRecord(entry[e].ev_id, entry[e].requested_kw,
                                             resp.substation_id, now))
                 /\ EntryReturn(e, "submit", resp.session_id, NoError)
            ELSE /\ EntryReturn(e, "submit", <<>>, NoSessionIdError)
                 /\ UNCHANGED active_sessions
       ELSE /\ EntryReturn(e, "submit", <<>>, LoadBalancerError(resp.status))
            /\ UNCHANGED active_sessions
    /\ UNCHANGED <<subVars, now, th, calls, lbVars, route>>

\* submit_charging_request: the balancer's answer has arrived; on 200 with a
\* session id the session is recorded under the lock
SubmitAnswer(e) == SubmitAnswerAt(e, "submit_responded")

\* DELETE /sessions/<session_id> arrives at the entry point
CallStopSession(e, id) ==
    /\ entry[e].pc = "idle"
    /\ calls < MaxCalls
    /\ calls' = calls + 1
    /\ entry' = [entry EXCEPT ![e] = [IdleEntry EXCEPT !.pc = "stop_lookup",
                                                        !.session_id = id]]
    /\ UNCHANGED <<subVars, now, th, last, lbVars, route, active_sessions>>

\* faulty variant: for a session that is not tracked the owning substation is
\* read off the session id
OwnerGuessed(m, id) ==
    IF id \in DOMAIN m THEN <<m[id].substation_id>> ELSE <<id[1]>>

\* `if session_id not in self.active_sessions` and
\* self.active_sessions[session_id]['substation_id']: <<>> when the session is
\* not tracked, <<substation_id>> otherwise
OwnerOf(m, id) == IF id \in DOMAIN m THEN <<m[id].substation_id>> ELSE <<>>

\* stop_charging_session: the lookup of the session and the release of the
\* lock, by entry-point thread e at position at
StopLookupAt(e, at) ==
    LET id == entry[e].session_id
        owner == OwnerOf(active_sessions, id)
    IN
    /\ entry[e].pc = at
    /\ IF owner # <<>>
       THEN /\ entry' = [entry EXCEPT ![e].pc = "stop_send",
                                      ![e].substation_id = owner[1]]
            /\ UNCHANGED last
       ELSE EntryReturn(e, "stop_session", <<id>>, SessionNotFoundError)
    /\ UNCHANGED <<subVars, now, th, calls, lbVars, route, active_sessions>>

\* stop_charging_session: the lookup of the session under the lock
StopLookup(e) == StopLookupAt(e, "stop_lookup")

\* stop_charging_session: requests.delete(f"{substation_url}/charge/{id}")
\* reaches the substation s the url names, whose handler thread t calls
\* stop_charging
StopSend(e, t, s) ==
    /\ entry[e].pc = "stop_send"
    /\ s \in Resolve(entry[e].substation_id)
    /\ th[t].pc = "idle"
    /\ th' = [th EXCEPT ![t] = [IdleThread EXCEPT !.pc = "stop_wait", !.sub = s,
                                                  !.session_id = entry[e].session_id,
                                                  !.caller = e]]
    /\ entry' = [entry EXCEPT ![e].pc = "stop_await", ![e].handler = t]
    /\ UNCHANGED <<subVars, now, last, calls, lbVars, route, active_sessions>>

\* stop_charging_session: requests.delete raises before the command reaches
\* a substation (name not resolved, connection refused)
StopConnectFail(e) ==
    /\ entry[e].pc = "stop_send"
    /\ EntryReturn(e, "stop_session", <<entry[e].session_id>>, TransportError)
    /\ UNCHANGED <<subVars, now, th, calls, lbVars, route, active_sessions>>

\* stop_charging_session: requests.delete raises after the command was sent:
\* the 10 s timeout passes, or the answer is lost
StopTimeout(e) ==
    /\ entry[e].pc \in {"stop_await", "stop_responded"}
    /\ EntryReturn(e, "stop_session", <<entry[e].session_id>>, TransportError)
    /\ UNCHANGED <<subVars, now, th, calls, lbVars, route, active_sessions>>

\* faulty variant: the record is deleted whatever the substation answered
TrackedAfterAnyAnswer(m, id, status) == DictDel(m, id)

\* faulty variant: the record is kept whatever the substation answered
TrackedKept(m, id, status) == m

\* `if response.status_code == 200: del self.active_sessions[session_id]`
TrackedAfterStop(m, id, status) == IF status = 200 THEN DictDel(m, id) ELSE m

\* stop_charging_session after the substation's answer, by entry-point thread
\* e at position at: on 200 the record is deleted and the lock released, and a
\* record that is no longer there makes the `del` raise
StopAnswerAt(e, at) ==
    LET id == entry[e].session_id
        status == entry[e].response.status
    IN
    /\ entry[e].pc = at
    /\ IF status = 200 /\ id \notin DOMAIN active_sessions
       THEN /\ EntryReturn(e, "stop_session", <<id>>, KeyErrorText)
            /\ UNCHANGED active_sessions
       ELSE /\ active_sessions' = TrackedAfterStop(active_sessions, id, status)
            /\ EntryReturn(e, "stop_session", <<id>>,
                           IF status = 200 THEN NoError ELSE StopFailedError(status))
    /\ UNCHANGED <<subVars, now, th, calls, lbVars, route>>

\* stop_charging_session: the substation's answer has arrived; on 200 the
\* record is deleted under the lock
StopAnswer(e) == StopAnswerAt(e, "stop_responded")

\* the entry of the telemetry cache a successful poll of the idle substation s
\* writes
IdleEntryOf(s) ==
    [url |-> s, current_load |-> 0, total_capacity |-> max_capacity[s],
     load_percentage |-> LoadPercentage(0, max_capacity[s]), last_updated |-> 0]

\* the system once the operator has added the substations and the first
\* polling cycle has fetched both; the poller sleeps between two cycles
InitEntry ==
    /\ substation_id = [s \in Subs |-> IF s = Target THEN 1000 ELSE 1001]
    /\ max_capacity = [s \in Subs |-> MaxCap + 1]
    /\ current_load = [s \in Subs |-> 0]
    /\ active_chargers = [s \in Subs |-> 0]
    /\ charging_sessions = [s \in Subs |-> <<>>]
    /\ sub_lock = [s \in Subs |-> NoThread]
    /\ now = 0
    /\ th = [t \in Threads |-> IdleThread]
    /\ last = NoReturn
    /\ calls = 0
    /\ InitRequests
    /\ substations = <<"s1", "s2">>
    /\ substation_metrics = <<IdleEntryOf("s1"), IdleEntryOf("s2")>>
    /\ poll = PollerAtTop
    /\ polled = {"s1", "s2"}
    /\ running = TRUE
    /\ shutdown = "serving"

\* the requested_kw values and the session ids the clients of the entry point
\* send
SubmitKwValues == 1..MaxKw
EntrySessionIds == {SessionId(1000, e, 0) : e \in LoadEvIds}

\* a request is taken by the first handler thread of the pool that is free
FirstIdle(pool, i) ==
    /\ pool[i].pc = "idle"
    /\ \A j \in DOMAIN pool : j < i => pool[j].pc # "idle"

\* the entry point in front of the balancer and the substations, between two
\* polling cycles
NextEntry ==
    \/ \E e \in EntryThreads, ev \in LoadEvIds, kw \in SubmitKwValues :
          FirstIdle(entry, e) /\ CallSubmit(e, ev, kw)
    \/ \E e \in EntryThreads, r \in RouterThreads : SubmitPost(e, r)
    \/ \E e \in EntryThreads : SubmitConnectFail(e)
    \/ \E e \in EntryThreads : SubmitTimeout(e)
    \/ \E e \in EntryThreads : SubmitAnswer(e)
    \/ \E r \in RouterThreads : RouteSelect(r)
    \/ \E r \in RouterThreads, t \in LoadThreads : RoutePost(r, t)
    \/ \E r \in RouterThreads : RouteConnectFail(r)
    \/ \E r \in RouterThreads : RouteTimeout(r)
    \/ \E r \in RouterThreads : RouteAnswer(r)
    \/ \E t \in LoadThreads : StartEnter(t)
    \/ \E t \in LoadThreads : StartExit(t)
    \/ \E e \in EntryThreads, id \in EntrySessionIds :
          FirstIdle(entry, e) /\ CallStopSession(e, id)
    \/ \E e \in EntryThreads : StopLookup(e)
    \/ \E e \in EntryThreads, t \in LoadThreads, s \in Subs : StopSend(e, t, s)
    \/ \E e \in EntryThreads : StopConnectFail(e)
    \/ \E e \in EntryThreads : StopTimeout(e)
    \/ \E e \in EntryThreads : StopAnswer(e)
    \/ \E t \in LoadThreads : StopEnter(t)
    \/ \E t \in LoadThreads : StopExit(t)

SpecEntry == InitEntry /\ [][NextEntry]_vars


(* ------------------------ entry point properties ---------------------- *)

\* entry-point thread e returns from submit_charging_request in this step
SubmitReturns(e) ==
    /\ entry[e].pc \in {"submit_post", "submit_await", "submit_responded"}
    /\ entry'[e].pc = "idle"

\* entry-point thread e returns from stop_charging_session in this step
StopSessionReturns(e) ==
    /\ entry[e].pc \in {"stop_lookup", "stop_send", "stop_await", "stop_responded"}
    /\ entry'[e].pc = "idle"

\* the substation's answer to the stop command of entry-point thread e is
\* made in this step, by substation thread t
StopCommandServed(e, t) ==
    /\ StopReturns(t)
    /\ th[t].caller = e
    /\ entry[e].pc = "stop_await"
    /\ entry[e].handler = t

\* C19: the entry point tracks a session id exactly from the return of a
\* charge request that succeeded with that id to the return of a Stop of it
\* that was forwarded successfully: a submit that fails records nothing, a
\* submit that succeeds records the request under the returned id, only a
\* successful Stop removes a record, and the stop command of a tracked session
\* that finds the session releases, at the owning substation, the kW the
\* tracked record holds.
C19_TrackedFromSubmitToStop ==
    [][\A e \in EntryThreads :
          /\ SubmitReturns(e) =>
                IF last'.ret_error = NoError
                THEN /\ Len(last'.ret_session) = 1
                     /\ DOMAIN active_sessions' =
                            (DOMAIN active_sessions) \cup {last'.ret_session[1]}
                     /\ active_sessions'[last'.ret_session[1]].ev_id = entry[e].ev_id
                     /\ active_sessions'[last'.ret_session[1]].requested_kw
                            = entry[e].requested_kw
                ELSE active_sessions' = active_sessions
          /\ StopSessionReturns(e) =>
                IF last'.ret_error = NoError
                THEN /\ entry[e].pc = "stop_responded"
                     /\ entry[e].response.status = 200
                     /\ entry[e].session_id \in DOMAIN active_sessions
                     /\ active_sessions' = DictDel(active_sessions, entry[e].session_id)
                ELSE active_sessions' = active_sessions
          /\ (~SubmitReturns(e) /\ ~StopSessionReturns(e)) =>
                (entry'[e] # entry[e] => active_sessions' = active_sessions)
          /\ \A t \in Threads :
                (StopCommandServed(e, t)
                    /\ entry[e].session_id \in DOMAIN active_sessions
                    /\ entry[e].session_id \in DOMAIN charging_sessions[th[t].sub]) =>
                      /\ substation_id[th[t].sub]
                            = active_sessions[entry[e].session_id].substation_id
                      /\ entry[e].session_id \notin DOMAIN charging_sessions'[th[t].sub]
                      /\ current_load'[th[t].sub] =
                            current_load[th[t].sub]
                                - active_sessions[entry[e].session_id].requested_kw]_vars


\* a Stop of entry-point thread e returns an error in this step because the
\* substation was not reached, did not answer in time, or answered with a
\* status other than 200
StopForwardFails(e) ==
    /\ StopSessionReturns(e)
    /\ entry[e].pc \in {"stop_send", "stop_await", "stop_responded"}
    /\ last'.ret_error \notin {NoError, KeyErrorText}

StopCommandSent(e, t) ==
    /\ th[t].pc = "idle"
    /\ th'[t].pc = "stop_wait"
    /\ th'[t].caller = e

\* C21: a Stop at the entry point of a session id that has no tracked record
\* returns 'Session not found', forwards no stop command to any substation,
\* and leaves the tracker and the state of every substation unchanged.
C21_UntrackedStopNoEffect ==
    [][\A e \in EntryThreads :
          (entry[e].pc = "stop_lookup" /\ entry'[e] # entry[e]
              /\ entry[e].session_id \notin DOMAIN active_sessions) =>
                /\ StopSessionReturns(e)
                /\ last'.op = "stop_session"
                /\ last'.ret_error = SessionNotFoundError
                /\ ~last'.ret_ok
                /\ \A t \in Threads : ~StopCommandSent(e, t)
                /\ UNCHANGED <<subVars, th, active_sessions>>]_vars

\* C21 witness: a Stop has returned 'Session not found' for a session that the
\* substation holds and the entry point does not track (its submit timed out).
C21_Witness ==
    /\ last.op = "stop_session"
    /\ last.ret_error = SessionNotFoundError
    /\ last.ret_session # <<>>
    /\ last.ret_session[1] \in DOMAIN charging_sessions[Target]
    /\ last.ret_session[1] \notin DOMAIN active_sessions


(* -------------------- the polling thread's life cycle ------------------ *)

\* a step of the polling thread
PollerStep ==
    \/ PollSnapshot
    \/ PollFetch
    \/ PollFail
    \/ PollWrite
    \/ PollSleep
    \/ PollExit

\* the balancer process from start_polling to the return of stop_polling:
\* registry requests, the polling thread, and the main thread's stop_polling
NextPoll ==
    \/ \E url \in Subs : AddSubstation(url)
    \/ \E url \in Subs : RemoveSubstation(url)
    \/ PollSnapshot
    \/ PollFetch
    \/ PollFail
    \/ PollWrite
    \/ PollSleep
    \/ PollExit
    \/ StopPolling
    \/ JoinReturns

\* the polling thread is a thread of its own that the scheduler keeps running:
\* requests.get(timeout=5) and time.sleep return, and the balancer lock is
\* never held across a network call; join returns once the thread has ended
SpecPoll ==
    /\ InitLB
    /\ [][NextPoll]_vars
    /\ WF_vars(PollerStep)
    /\ WF_vars(JoinReturns)

\* C22: once stop_polling has set running to false and waits in join, the
\* polling loop ends and stop_polling returns; after it has returned the
\* polling thread is over and writes the telemetry cache no more.
C22_StopPollingTerminates ==
    /\ (shutdown = "join") ~> (shutdown = "stopped")
    /\ [](shutdown = "stopped" => poll.pc = "done")
    /\ [][shutdown = "stopped" =>
            /\ \A url \in Subs : ~PollWrites(url)
            /\ poll' = poll]_vars

\* C22 witness: stop_polling has returned after the poller had written the
\* cache, with an endpoint still registered.
C22_Witness ==
    /\ shutdown = "stopped"
    /\ substation_metrics # <<>>
    /\ substations # <<>>


\* poll_substation_metrics(url) returns in this step, True or False
PollVisits(url) ==
    /\ last'.op = "poll"
    /\ last'.sub = url
    /\ PollWrites(url) \/ PollFails(url)

\* C30: the urls of a cycle's snapshot leave the poller's list one by one, head
\* first and each by a visit of it, whether the visits before it failed or
\* not, so the cycle ends only with all of them visited; every cycle that has
\* urls left gets to its next visit, every cycle gets to the loop head, and at
\* the loop head the polling thread, while running is true, starts the next
\* cycle with a copy of the registry.
C30_CycleVisitsEveryEndpoint ==
    /\ [][(poll.pc \in {"visit", "fetched"} /\ poll'.to_poll # poll.to_poll) =>
            /\ poll'.to_poll = Tail(poll.to_poll)
            /\ PollVisits(Head(poll.to_poll))]_vars
    /\ [][(poll.pc # "top" /\ poll'.pc = "top") => poll.to_poll = <<>>]_vars
    /\ [][(poll.pc = "top" /\ poll' # poll /\ running) =>
            /\ poll'.pc = "visit"
            /\ poll'.to_poll = substations]_vars
    /\ \A n \in 1..Cardinality(Subs) :
          (poll.pc \in {"visit", "fetched"} /\ Len(poll.to_poll) = n)
             ~> (poll.pc = "visit" /\ Len(poll.to_poll) = n - 1)
    /\ (poll.pc = "visit" /\ poll.to_poll = <<>>) ~> (poll.pc = "top")
    /\ (poll.pc = "top" /\ running) ~> (poll.pc = "visit" \/ ~running)

\* C30 witness: a cycle over the snapshot <<s1, s2>> has ended with the fetch
\* of s2 written to the cache after the fetch of s1, which never succeeded,
\* had failed.
C30_Witness ==
    /\ poll.pc = "visit"
    /\ poll.to_poll = <<>>
    /\ last.op = "poll"
    /\ last.sub = "s2"
    /\ last.ret_ok
    /\ substations = <<"s1", "s2">>
    /\ calls = 2
    /\ "s1" \notin polled
    /\ running


(* ----------------------- cache and registry --------------------------- *)

\* C24: every endpoint that has a telemetry cache entry is in the registry, in
\* every reachable state and under every interleaving of Add, Remove and the
\* poller (so a selection, which returns a cached endpoint, returns a
\* registered one).
C24_CachedAreRegistered ==
    \A i \in 1..Len(substation_metrics) :
        IndexOf(substations, substation_metrics[i].url) > 0


\* C26: a selection made when the latest fetch of an endpoint has just failed
\* does not return that endpoint, whether the endpoint has a cache entry from
\* an earlier fetch (stale but present) or has never reported.
C26_FailingNeverSelected ==
    [][\A u \in Subs :
          (last.op = "poll" /\ last.sub = u /\ ~last.ret_ok /\ SelectReturns) =>
              last'.ret_url # <<u>>]_vars


(* ----------------------- failed calls and retries --------------------- *)

\* C27: a Route call that returns an error has created no session and
\* allocated no capacity: the substation has not admitted the start command of
\* that call (an admitted command is one answered 200 with the session the
\* substation stored and added to current_load).
C27_RouteErrorAllocatesNothing ==
    [][\A r \in RouteThreads :
          (RouteReturns(r) /\ last'.op = "route" /\ last'.ret_error # NoError) =>
              ~(route[r].pc = "responded" /\ route[r].response.status = 200)]_vars


\* the session of EV_A that the clients of SpecRetry stop
RetrySession == SessionId(1000, "EV_A", 0)

\* the state after one charge request of EV_A was submitted at the entry
\* point, routed to s1, admitted there and recorded by the tracker; ent is the
\* state of the entry point's handler threads, n the number of requests so far
InitTracked(ent, n) ==
    \E kw \in SubmitKwValues :
        /\ substation_id = [s \in Subs |-> IF s = Target THEN 1000 ELSE 1001]
        /\ max_capacity = [s \in Subs |-> MaxCap + 1]
        /\ current_load = [s \in Subs |-> IF s = Target THEN kw ELSE 0]
        /\ active_chargers = [s \in Subs |-> IF s = Target THEN 1 ELSE 0]
        /\ charging_sessions =
              [s \in Subs |->
                  IF s = Target
                  THEN DictPut(<<>>, RetrySession,
                               [ev_id |-> "EV_A", requested_kw |-> kw, start_time |-> 0])
                  ELSE <<>>]
        /\ sub_lock = [s \in Subs |-> NoThread]
        /\ now = 0
        /\ th = [t \in Threads |-> IdleThread]
        /\ last = [NoReturn EXCEPT !.op = "submit", !.ret_session = <<RetrySession>>,
                                   !.ret_ok = TRUE, !.requested_kw = kw]
        /\ calls = n
        /\ route = [r \in RouteThreads |-> IdleRoute]
        /\ entry = ent
        /\ active_sessions =
              DictPut(<<>>, RetrySession, TrackedRecord("EV_A", kw, 1000, 0))
        /\ substations = <<"s1", "s2">>
        /\ substation_metrics = <<IdleEntryOf("s1"), IdleEntryOf("s2")>>
        /\ poll = PollerAtTop
        /\ polled = {"s1", "s2"}
        /\ running = TRUE
        /\ shutdown = "serving"

\* no request is in the entry point
InitRetry == InitTracked([e \in EntryThreads |-> IdleEntry], 1)

\* the client sends DELETE /sessions/<session_id> again, for as long as no
\* Stop of the session has been answered with success (an answer of success
\* and the removal of the record are one step of stop_charging_session)
RetryStopSession(e, id) ==
    /\ entry[e].pc = "idle"
    /\ calls > 1
    /\ id \in DOMAIN active_sessions
    /\ entry' = [entry EXCEPT ![e] = [IdleEntry EXCEPT !.pc = "stop_lookup",
                                                        !.session_id = id]]
    /\ UNCHANGED <<subVars, now, th, last, calls, lbVars, route, active_sessions>>

\* Stop requests for the tracked session, two of them at the same time at
\* most, and the retries of the ones that failed
NextRetry ==
    \/ \E e \in EntryThreads : FirstIdle(entry, e) /\ CallStopSession(e, RetrySession)
    \/ \E e \in EntryThreads : FirstIdle(entry, e) /\ RetryStopSession(e, RetrySession)
    \/ \E e \in EntryThreads : StopLookup(e)
    \/ \E e \in EntryThreads, t \in LoadThreads, s \in Subs : StopSend(e, t, s)
    \/ \E e \in EntryThreads : StopConnectFail(e)
    \/ \E e \in EntryThreads : StopTimeout(e)
    \/ \E e \in EntryThreads : StopAnswer(e)
    \/ \E t \in LoadThreads : StopEnter(t)
    \/ \E t \in LoadThreads : StopExit(t)

\* every thread keeps running, the client keeps retrying, and the transport
\* works again and again: a command that is to be sent is sent at some time,
\* and an answer that has arrived is read at some time
SpecRetry ==
    /\ InitRetry
    /\ [][NextRetry]_vars
    /\ WF_vars(\E e \in EntryThreads : StopLookup(e))
    /\ WF_vars(\E t \in LoadThreads : StopEnter(t))
    /\ WF_vars(\E t \in LoadThreads : StopExit(t))
    /\ SF_vars(\E e \in EntryThreads : FirstIdle(entry, e) /\ RetryStopSession(e, RetrySession))
    /\ SF_vars(\E e \in EntryThreads, t \in LoadThreads, s \in Subs : StopSend(e, t, s))
    /\ SF_vars(\E e \in EntryThreads : StopAnswer(e))

\* a Stop at the entry point has just returned what the substation answered:
\* the transport worked for it
StopAnswered ==
    /\ last.op = "stop_session"
    /\ last.ret_session = <<RetrySession>>
    /\ last.ret_error \notin {TransportError, SessionNotFoundError}

\* C28: if the transport works again and again for the client's retries, then
\* after a Stop of the tracked session has failed with a transport failure,
\* with the record still tracked, there comes a retry that succeeds, and the
\* record is removed.
C28_RetriedStopSucceeds ==
    ([]<>StopAnswered) =>
        ((/\ last.op = "stop_session"
          /\ last.ret_error = TransportError
          /\ RetrySession \in DOMAIN active_sessions)
             ~> (RetrySession \notin DOMAIN active_sessions))


(* ------------------- two Stop calls of one session --------------------- *)

\* two DELETE /sessions/<session_id> requests for the tracked session have
\* arrived at the entry point and run in two handler threads
InitTwoStops ==
    InitTracked([e \in EntryThreads |->
                    [IdleEntry EXCEPT !.pc = "stop_lookup", !.session_id = RetrySession]],
                1 + Cardinality(EntryThreads))

\* the two calls and the substation's handler, to the return of both
NextTwoStops ==
    \/ \E e \in EntryThreads : StopLookup(e)
    \/ \E e \in EntryThreads, t \in Threads, s \in Subs : StopSend(e, t, s)
    \/ \E e \in EntryThreads : StopConnectFail(e)
    \/ \E e \in EntryThreads : StopTimeout(e)
    \/ \E e \in EntryThreads : StopAnswer(e)
    \/ \E t \in Threads : StopEnter(t)
    \/ \E t \in Threads : StopExit(t)

SpecTwoStops == InitTwoStops /\ [][NextTwoStops]_vars

\* both calls have returned and the substation serves no command
BothReturned ==
    /\ \A e \in EntryThreads : entry[e].pc = "idle"
    /\ \A t \in Threads : th[t].pc = "idle"

\* C29 as claimed: of two concurrent Stop calls of one tracked session one
\* succeeds, so that after both have returned the record is removed, and the
\* substation has released the session's kW once.
C29_ExactlyOneStopSucceeds ==
    BothReturned =>
        /\ RetrySession \notin DOMAIN active_sessions
        /\ RetrySession \notin DOMAIN charging_sessions[Target]
        /\ current_load[Target] = 0

\* C29: of two concurrent Stop calls of one tracked session at most one
\* reports success, and the one that does removes the record, which no other
\* step removes and which stays removed; the substation releases the session's
\* kW at most once, together with the session; every call reports success or an
\* error, and after both have returned the record is removed only if the
\* substation has released the session.
C29_AtMostOneStopSucceeds ==
    /\ [][\A e \in EntryThreads :
            StopSessionReturns(e) =>
                /\ last'.op = "stop_session"
                /\ last'.ret_ok <=> last'.ret_error = NoError
                /\ last'.ret_ok <=>
                      (/\ RetrySession \in DOMAIN active_sessions
                       /\ RetrySession \notin DOMAIN active_sessions')]_vars
    /\ [][active_sessions' # active_sessions =>
            \E e \in EntryThreads : StopSessionReturns(e) /\ last'.ret_ok]_vars
    /\ [][RetrySession \notin DOMAIN active_sessions =>
            RetrySession \notin DOMAIN active_sessions']_vars
    /\ [][current_load' # current_load =>
            /\ RetrySession \in DOMAIN charging_sessions[Target]
            /\ RetrySession \notin DOMAIN charging_sessions'[Target]
            /\ current_load'[Target] =
                  current_load[Target]
                      - charging_sessions[Target][RetrySession].requested_kw
            /\ current_load'[Target] = 0]_vars
    /\ [][RetrySession \notin DOMAIN charging_sessions[Target] =>
            UNCHANGED <<current_load, charging_sessions>>]_vars
    /\ [](RetrySession \notin DOMAIN active_sessions =>
            RetrySession \notin DOMAIN charging_sessions[Target])

\* C29 witness: both calls have returned, the first with success and the
\* second with the substation's 404; the record and the session are gone.
C29_Witness ==
    /\ BothReturned
    /\ last.op = "stop_session"
    /\ last.ret_error = StopFailedError(404)
    /\ RetrySession \notin DOMAIN active_sessions
    /\ current_load[Target] = 0


(* ---------------- the locks and the network calls ---------------------- *)

\* faulty variant: one `with self.lock` block around the whole cycle
PollerLockedInCycle(pc) == pc \in {"copy_cs", "visit", "fetched", "store_cs"}

\* the positions of the polling thread inside a `with self.lock` block: the
\* copy of the registry, and the write of a cache entry
PollerLockedAt(pc) == pc \in {"copy_cs", "store_cs"}

\* the position of a balancer handler thread inside the `with self.lock` block
\* of get_least_loaded_substation
RouterLockedAt(pc) == pc = "select_cs"

\* the positions of an entry-point handler thread inside a `with self.lock`
\* block: the record of a session, the lookup of one, the `del` of one
TrackerLockedAt(pc) == pc \in {"record_cs", "lookup_cs", "del_cs"}

\* threading.Lock of the balancer: no thread is inside one of its blocks
BalancerLockFree ==
    /\ ~PollerLockedAt(poll.pc)
    /\ \A r \in RouteThreads : ~RouterLockedAt(route[r].pc)

\* threading.Lock of the entry point: no thread is inside one of its blocks
TrackerLockFree == \A e \in EntryThreads : ~TrackerLockedAt(entry[e].pc)

\* the polling thread enters `with self.lock`, at the loop head or after a
\* fetch that was answered 200
PollLock ==
    /\ BalancerLockFree
    /\ \/ /\ poll.pc = "top"
          /\ LoopContinues(running)
          /\ poll' = [poll EXCEPT !.pc = "copy_cs"]
       \/ /\ poll.pc = "fetched"
          /\ poll' = [poll EXCEPT !.pc = "store_cs"]
    /\ UNCHANGED <<subVars, now, th, last, calls, substations, substation_metrics, polled,
                   running, shutdown, reqVars>>

\* balancer thread r enters `with self.lock` in get_least_loaded_substation
RouteLock(r) ==
    /\ BalancerLockFree
    /\ route[r].pc = "select"
    /\ route' = [route EXCEPT ![r].pc = "select_cs"]
    /\ UNCHANGED <<subVars, now, th, last, calls, lbVars, entry, active_sessions>>

\* entry-point thread e is to write the tracker after the answer it has got
TrackerWriteDue(e) ==
    \/ /\ entry[e].pc = "submit_responded"
       /\ entry[e].response.status = 200
       /\ entry[e].response.session_id # <<>>
    \/ /\ entry[e].pc = "stop_responded"
       /\ entry[e].response.status = 200

\* entry-point thread e enters `with self.lock`: to record a session, to look
\* one up, or to delete one
TrackerLock(e) ==
    /\ TrackerLockFree
    /\ \/ /\ entry[e].pc = "stop_lookup"
          /\ entry' = [entry EXCEPT ![e].pc = "lookup_cs"]
       \/ /\ TrackerWriteDue(e)
          /\ entry' = [entry EXCEPT ![e].pc =
                          IF entry[e].pc = "submit_responded" THEN "record_cs" ELSE "del_cs"]
    /\ UNCHANGED <<subVars, now, th, last, calls, lbVars, route, active_sessions>>

\* the balancer, the entry point and the substations with every entry into a
\* `with self.lock` block and every exit from it a step of its own
NextLocks ==
    \/ \E url \in Subs : BalancerLockFree /\ AddSubstation(url)
    \/ \E url \in Subs : BalancerLockFree /\ RemoveSubstation(url)
    \/ PollLock
    \/ PollCopyAt("copy_cs")
    \/ PollFetch
    \/ PollFail
    \/ PollStoreAt("store_cs")
    \/ PollSleep
    \/ \E e \in EntryThreads, ev \in LoadEvIds :
          FirstIdle(entry, e) /\ CallSubmit(e, ev, MaxCap)
    \/ \E e \in EntryThreads, r \in RouterThreads : SubmitPost(e, r)
    \/ \E e \in EntryThreads : SubmitConnectFail(e)
    \/ \E e \in EntryThreads : SubmitTimeout(e)
    \/ \E e \in EntryThreads : ~TrackerWriteDue(e) /\ SubmitAnswer(e)
    \/ \E e \in EntryThreads : TrackerLock(e)
    \/ \E e \in EntryThreads : SubmitAnswerAt(e, "record_cs")
    \/ \E r \in RouterThreads : RouteLock(r)
    \/ \E r \in RouterThreads : RouteSelectAt(r, "select_cs")
    \/ \E r \in RouterThreads, t \in LoadThreads : RoutePost(r, t)
    \/ \E r \in RouterThreads : RouteConnectFail(r)
    \/ \E r \in RouterThreads : RouteTimeout(r)
    \/ \E r \in RouterThreads : RouteAnswer(r)
    \/ \E t \in LoadThreads : StartEnter(t)
    \/ \E t \in LoadThreads : StartExit(t)
    \/ \E e \in EntryThreads, id \in EntrySessionIds :
          FirstIdle(entry, e) /\ CallStopSession(e, id)
    \/ \E e \in EntryThreads : StopLookupAt(e, "lookup_cs")
    \/ \E e \in EntryThreads, t \in LoadThreads, s \in Subs : StopSend(e, t, s)
    \/ \E e \in EntryThreads : StopConnectFail(e)
    \/ \E e \in EntryThreads : StopTimeout(e)
    \/ \E e \in EntryThreads : ~TrackerWriteDue(e) /\ StopAnswer(e)
    \/ \E e \in EntryThreads : StopAnswerAt(e, "del_cs")
    \/ \E t \in LoadThreads : StopEnter(t)
    \/ \E t \in LoadThreads : StopExit(t)

\* one session is tracked, and the clients send as many further requests as the
\* entry point has handler threads
InitLocks ==
    InitTracked([e \in EntryThreads |-> IdleEntry], MaxCalls - Cardinality(EntryThreads))

SpecLocks == InitLocks /\ [][NextLocks]_vars


\* requests.get of the polling thread is in flight
PollInFlight == poll.pc = "visit" /\ poll.to_poll # <<>>

\* requests.post of balancer thread r is in flight
RouteInFlight(r) == route[r].pc \in {"post", "await", "responded"}

\* requests.post or requests.delete of entry-point thread e is in flight
EntryInFlight(e) ==
    entry[e].pc \in {"submit_post", "submit_await", "submit_responded",
                     "stop_send", "stop_await", "stop_responded"}

TestRequests == 10
TestKw == 11
RequiredRate == 80

\* random.randint(80, 120), the capacity of a substation process
MinCapacity == 80
MaxCapacity == 120

\* substation_1 .. substation_3 of the test, and the ev_id of its i-th request
TestSubs == {"s1", "s2", "s3"}
TestEvIds ==
    <<"TEST_EV_000", "TEST_EV_001", "TEST_EV_002", "TEST_EV_003", "TEST_EV_004",
      "TEST_EV_005", "TEST_EV_006", "TEST_EV_007", "TEST_EV_008", "TEST_EV_009">>

\* three idle substations, all with the least or all with the greatest
\* capacity, registered and polled once while idle; the poller is between two
\* cycles
InitTest ==
    /\ substation_id = [s \in TestSubs |->
                           IF s = "s1" THEN 1000 ELSE IF s = "s2" THEN 1001 ELSE 1002]
    /\ max_capacity \in {[s \in TestSubs |-> c] : c \in {MinCapacity, MaxCapacity}}
    /\ current_load = [s \in TestSubs |-> 0]
    /\ active_chargers = [s \in TestSubs |-> 0]
    /\ charging_sessions = [s \in TestSubs |-> <<>>]
    /\ sub_lock = [s \in TestSubs |-> NoThread]
    /\ now = 0
    /\ th = [t \in Threads |-> IdleThread]
    /\ last = NoReturn
    /\ calls = 0
    /\ InitRequests
    /\ substations = <<"s1", "s2", "s3">>
    /\ substation_metrics = <<IdleEntryOf("s1"), IdleEntryOf("s2"), IdleEntryOf("s3")>>
    /\ poll = PollerAtTop
    /\ polled = TestSubs
    /\ running = TRUE
    /\ shutdown = "serving"

\* the test has got the answer to its last request, and nothing of it is left
\* in the system
TestIdle ==
    /\ \A e \in EntryThreads : entry[e].pc = "idle"
    /\ \A r \in RouteThreads : route[r].pc = "idle"
    /\ \A t \in Threads : th[t].pc = "idle"

\* test_load_balancing sends its next request, after the answer to the one
\* before
TestRequest ==
    /\ TestIdle
    /\ calls < TestRequests
    /\ \E e \in EntryThreads :
          /\ FirstIdle(entry, e)
          /\ CallSubmitWithin(e, TestEvIds[calls + 1], TestKw, TestRequests)

\* the test's requests, one after another and with every answer arriving, while
\* the poller runs at its own pace
NextTest ==
    \/ TestRequest
    \/ \E e \in EntryThreads, r \in RouterThreads : SubmitPost(e, r)
    \/ \E e \in EntryThreads : SubmitAnswer(e)
    \/ \E r \in RouterThreads : RouteSelect(r)
    \/ \E r \in RouterThreads, t \in LoadThreads : RoutePost(r, t)
    \/ \E r \in RouterThreads : RouteAnswer(r)
    \/ \E t \in LoadThreads : StartEnter(t)
    \/ \E t \in LoadThreads : StartExit(t)
    \/ PollSnapshot
    \/ PollFetch
    \/ PollWrite
    \/ PollSleep

SpecTest == InitTest /\ [][NextTest]_vars

\* successful_requests of the test: every request answered 200 has its own
\* ev_id and so its own tracked record
SuccessfulRequests == Cardinality(DOMAIN active_sessions)

\* C23: when the test has the answers to its ten requests of 11 kW, at least
\* 80% of them are successes, whenever the polls happened.
C23_TestSuccessRate ==
    (calls = TestRequests /\ TestIdle) =>
        SuccessfulRequests * 100 >= RequiredRate * TestRequests


(* ------------------------- load never negative ------------------------ *)

\* C34: the current_load of every substation is at least 0 in every reachable
\* state, for every requested_kw that start_charging accepts and every order of
\* starts and stops.
C34_LoadNeverNegative == \A s \in Subs : current_load[s] >= 0


(* ------------------------- what a poll stores ------------------------- *)

\* SubstationState(substation_id, max_capacity) takes any max_capacity; the
\* poller parses whatever total_capacity the endpoint reports.  Both endpoints
\* have been added and no cycle of the poller has started yet; one request
\* for each substation is still to come.
ReportedCapacities == (0 - 1)..MaxCap

InitReport ==
    /\ substation_id = [s \in Subs |-> IF s = Target THEN 1000 ELSE 1001]
    /\ max_capacity \in {c \in [Subs -> ReportedCapacities] :
                            \A s \in Subs \ {Target} : c[s] = MaxCap}
    /\ current_load = [s \in Subs |-> 0]
    /\ active_chargers = [s \in Subs |-> 0]
    /\ charging_sessions = [s \in Subs |-> <<>>]
    /\ sub_lock = [s \in Subs |-> NoThread]
    /\ now = 0
    /\ th = [t \in Threads |-> IdleThread]
    /\ last = NoReturn
    /\ calls = MaxCalls - Cardinality(Subs)
    /\ InitRequests
    /\ substations = <<"s1", "s2">>
    /\ substation_metrics = <<>>
    /\ poll = PollerAtTop
    /\ polled = {}
    /\ running = TRUE
    /\ shutdown = "serving"

NextReport ==
    \/ PollSnapshot
    \/ PollFetch
    \/ PollFail
    \/ PollWrite
    \/ PollSleep
    \/ \E t \in LoadThreads, s \in Subs, ev \in LoadEvIds, kw \in KwValues :
          CallStart(t, s, ev, kw)
    \/ \E t \in LoadThreads : StartEnter(t)
    \/ \E t \in LoadThreads : StartExit(t)
    \/ \E t \in LoadThreads, s \in Subs, ev \in LoadEvIds :
          CallStop(t, s, SessionId(substation_id[s], ev, now))
    \/ \E t \in LoadThreads : StopEnter(t)
    \/ \E t \in LoadThreads : StopExit(t)

SpecReport == InitReport /\ [][NextReport]_vars

\* the step in which the GET /metrics of the poller is answered
PollFetches(url) ==
    /\ poll.pc = "visit"
    /\ poll'.pc = "fetched"
    /\ Head(poll.to_poll) = url

\* C33: a successful poll replaces the entry of the endpoint in one step by
\* an entry whose current_load and total_capacity are the values the
\* substation reported and whose load_percentage is current_load /
\* total_capacity * 100 when total_capacity > 0 and 0 when total_capacity <= 0;
\* no other entry changes in that step.
C33_PollStoresReportedValues ==
    [][\A url \in Subs :
          /\ PollFetches(url) =>
                /\ poll'.current_load = current_load[url]
                /\ poll'.total_capacity = max_capacity[url]
          /\ PollWrites(url) =>
                /\ EntryOf(substation_metrics', url) # <<>>
                /\ LET e == EntryOf(substation_metrics', url)[1] IN
                    /\ e.current_load = poll.current_load
                    /\ e.total_capacity = poll.total_capacity
                    /\ e.total_capacity > 0 =>
                          /\ e.load_percentage.d > 0
                          /\ e.load_percentage.n * e.total_capacity =
                                e.current_load * 100 * e.load_percentage.d
                    /\ e.total_capacity <= 0 =>
                          /\ e.load_percentage.d > 0
                          /\ e.load_percentage.n = 0
                /\ \A other \in Subs \ {url} :
                      EntryOf(substation_metrics', other) =
                          EntryOf(substation_metrics, other)]_vars

\* a poll has just stored an entry; the cache holds an entry with a positive
\* total_capacity and a positive load, and an entry of a substation that
\* reports a total_capacity of at most 0 with a load other than 0
C33_Witness ==
    /\ last.op = "poll" /\ last.ret_ok
    /\ \E url \in Subs :
          /\ EntryOf(substation_metrics, url) # <<>>
          /\ EntryOf(substation_metrics, url)[1].total_capacity > 0
          /\ EntryOf(substation_metrics, url)[1].current_load > 0
    /\ \E url \in Subs :
          /\ EntryOf(substation_metrics, url) # <<>>
          /\ EntryOf(substation_metrics, url)[1].total_capacity <= 0
          /\ EntryOf(substation_metrics, url)[1].current_load # 0


(* --------------------- the cache catches up with the load ------------- *)

\* the serving balancer with its polling thread scheduled fairly: both
\* endpoints added, two further requests (add, remove, start or stop) to come
NextFresh ==
    \/ \E url \in Subs : AddSubstation(url)
    \/ \E url \in Subs : RemoveSubstation(url)
    \/ PollSnapshot
    \/ PollFetch
    \/ PollFail
    \/ PollWrite
    \/ PollSleep
    \/ \E t \in LoadThreads, s \in Subs, ev \in LoadEvIds, kw \in KwValues :
          CallStart(t, s, ev, kw)
    \/ \E t \in LoadThreads : StartEnter(t)
    \/ \E t \in LoadThreads : StartExit(t)
    \/ \E t \in LoadThreads, s \in Subs, ev \in LoadEvIds :
          CallStop(t, s, SessionId(substation_id[s], ev, now))
    \/ \E t \in LoadThreads : StopEnter(t)
    \/ \E t \in LoadThreads : StopExit(t)

SpecFresh == InitReport /\ [][NextFresh]_vars /\ WF_vars(PollerStep)

Registered(url) == IndexOf(substations, url) > 0

\* the state right after a fetch of url came back without a 200
PollFailedAt(url) == last.op = "poll" /\ last.sub = url /\ ~last.ret_ok

\* the state right after a start or a stop changed the load of substation s
LoadChangedAt(s) ==
    /\ last.sub = s
    /\ \/ last.op = "start" /\ last.ret_session # <<>>
       \/ last.op = "stop" /\ last.ret_ok

Settled(s) == Registered(s) /\ ~PollFailedAt(s) /\ ~LoadChangedAt(s)

EntryHoldsActual(s) ==
    /\ EntryOf(substation_metrics, s) # <<>>
    /\ EntryOf(substation_metrics, s)[1].current_load = current_load[s]
    /\ EntryOf(substation_metrics, s)[1].total_capacity = max_capacity[s]

\* the cache as it would be with the present load of every cached substation
ActualCache ==
    [i \in 1..Len(substation_metrics) |->
        [substation_metrics[i] EXCEPT
            !.current_load = current_load[substation_metrics[i].url],
            !.total_capacity = max_capacity[substation_metrics[i].url],
            !.load_percentage =
                LoadPercentage(current_load[substation_metrics[i].url],
                               max_capacity[substation_metrics[i].url])]]

\* C31: with the polling thread scheduled fairly, a substation that from some
\* point on stays registered, answers every fetch and keeps its load has, from
\* some point on, a cache entry with its actual current_load and capacity; and
\* when that is so for every registered or cached substation, the choice of
\* SelectTarget is, from some point on, the choice by the actual loads.
C31_CacheEventuallyActual ==
    /\ \A s \in Subs : (<>[]Settled(s)) => <>[]EntryHoldsActual(s)
    /\ (<>[](\A s \in Subs :
                (Registered(s) \/ EntryOf(substation_metrics, s) # <<>>) =>
                    Settled(s)))
          => <>[](/\ SelectTarget(substation_metrics) = SelectTarget(ActualCache)
                  /\ \A s \in Subs : Registered(s) => EntryHoldsActual(s))

\* a poll has just brought the entry of a loaded substation up to date, and
\* the choice is another substation than the first of the cache
C31_Witness ==
    /\ last.op = "poll" /\ last.ret_ok
    /\ Registered(last.sub)
    /\ current_load[last.sub] > 0
    /\ EntryHoldsActual(last.sub)
    /\ Len(substation_metrics) > 1
    /\ SelectTarget(substation_metrics) = SelectTarget(ActualCache)
    /\ SelectTarget(substation_metrics) # <<substation_metrics[1].url>>


(* ------------------- stops after the owner was removed ---------------- *)

OwnerRegistered(sid) == \E s \in Resolve(sid) : Registered(s)

\* session id is tracked at the entry point and no substation with the id
\* of its record is in the registry of the balancer
Orphaned(id) ==
    /\ id \in DOMAIN active_sessions
    /\ ~OwnerRegistered(active_sessions[id].substation_id)

\* the client asks for the Stop of a tracked session after its substation
\* was removed, and again after a failed Stop
OrphanStop(e, id) ==
    /\ Orphaned(id)
    /\ CallStopSession(e, id) \/ RetryStopSession(e, id)

\* one session tracked at the entry point and held by the Target substation,
\* both substations registered; a removal and a Stop request are to come
InitOrphan ==
    InitTracked([e \in EntryThreads |-> IdleEntry], MaxCalls - Cardinality(Subs))

NextOrphan ==
    \/ \E url \in Subs : RemoveSubstation(url)
    \/ \E e \in EntryThreads : FirstIdle(entry, e) /\ OrphanStop(e, RetrySession)
    \/ \E e \in EntryThreads : StopLookup(e)
    \/ \E e \in EntryThreads, t \in LoadThreads, s \in Subs : StopSend(e, t, s)
    \/ \E e \in EntryThreads : StopConnectFail(e)
    \/ \E e \in EntryThreads : StopTimeout(e)
    \/ \E e \in EntryThreads : StopAnswer(e)
    \/ \E t \in LoadThreads : StopEnter(t)
    \/ \E t \in LoadThreads : StopExit(t)

SpecOrphan == InitOrphan /\ [][NextOrphan]_vars

\* a Stop of a session that the lookup found returns
TrackedStopReturns(e) ==
    /\ entry[e].pc \in {"stop_send", "stop_await", "stop_responded"}
    /\ entry'[e].pc = "idle"

=============================================================================
